---- MODULE Spec2Model ----
(***************************************************************************)
(* alarm-craft: reconciliation of desired CloudWatch metric alarms against *)
(* the alarms that exist in the backend.                                   *)
(*                                                                         *)
(* Strings are sequences of one-character strings, so that concatenation   *)
(* and prefix matching are computed, not assumed.  A Python dict is a      *)
(* function whose domain is its key set; the empty dict is << >>.          *)
(*                                                                         *)
(* Spec        one or more runs of core.main against a CloudWatch backend. *)
(* SpecUpdate  direct calls of AlarmHandler.update_alarms, the way the     *)
(*             unit tests of alarm.py drive it.                            *)
(* SpecDiff    one computation of the change set, for names of desired     *)
(*             and existing alarms that share prefixes.                    *)
(* SpecTargets list(get_target_metrics(config)) of the monitoring_targets  *)
(*             package over the tagging API; it reuses config, inventory,  *)
(*             token, target_metrics, calls and pc.                        *)
(* SpecGateway the same over the API Gateway resource types: HTTP APIs     *)
(*             with their stages, and REST APIs listed by get_rest_apis.   *)
(* SpecRun     core.main over service_config, whose builder names the      *)
(*             alarms: enumeration, fetch, change set, update.             *)
(* SpecExternal SpecRun with another client changing the backend between   *)
(*             get_alarms_change_set and update_alarms.                    *)
(* SpecPages   one pagination loop against a backend that scripts its      *)
(*             continuation tokens; weakly fair.                           *)
(* All specifications share the variables; each Init says what they hold.  *)
(***************************************************************************)
EXTENDS Integers, Sequences, FiniteSets, TLC

VARIABLES
    config,          \* the loaded config dict (default_alarm_params is mutable)
    opts,            \* CommandOpts
    inventory,       \* resources the enumerator lists for the one resource group
    backend,         \* CloudWatch: alarm name -> alarm parameters
    backend0,        \* history: the backend when the current run started
    pc,              \* position in main / update_alarms
    run,             \* number of the current run of main
    target_metrics,  \* list(get_target_metrics(config))
    token,           \* NextToken of the describe-alarms loop
    current_alarms,  \* alarms yielded so far by _get_current_alarms
    create,          \* changeset: need_to_create
    keep,            \* changeset: list(no_update)
    delete,          \* changeset: list(need_to_delete)
    to_create,       \* update_alarms argument
    to_delete,       \* update_alarms argument
    idx,             \* loop position in _create_alarms / _delete_alarms
    calls,           \* history: create/delete calls, sleeps and prompts of the current run
    out,             \* history: lines printed by the current run
    prev             \* history: how the previous run ended

vars == <<config, opts, inventory, backend, backend0, pc, run, target_metrics,
          token, current_alarms, create, keep, delete, to_create, to_delete,
          idx, calls, out, prev>>

----------------------------------------------------------------------------
(* Bounds of the model *)

MaxResources == 2
MaxRuns == 2
MaxDeleteLen == 201
MaxCreateLen == 2

(* Program constants *)

MaxRecords == 100
chunk_size == 100
MillisPerSec == 1000

----------------------------------------------------------------------------
(* Strings and dicts *)

Min(a, b) == IF a < b THEN a ELSE b

StartsWith(s, p) == Len(s) >= Len(p) /\ SubSeq(s, 1, Len(p)) = p

Range(s) == {s[j] : j \in 1..Len(s)}

\* Python truthiness of a str / list / dict
Truthy(x) == DOMAIN x /= {}

\* dict | dict, dict.update: keys of b win
Merge(a, b) ==
    [k \in (DOMAIN a) \cup (DOMAIN b) |-> IF k \in DOMAIN b THEN b[k] ELSE a[k]]

\* dict.get(k) with a default
Get(d, k, dflt) == IF k \in DOMAIN d THEN d[k] ELSE dflt

RECURSIVE SetToSeq(_)
SetToSeq(S) ==
    IF S = {} THEN << >>
    ELSE LET x == CHOOSE y \in S : TRUE IN <<x>> \o SetToSeq(S \ {x})

\* list(a_set): the elements in some iteration order
ListOf(S) == {f \in [1..Cardinality(S) -> S] : \A a, b \in DOMAIN f : a /= b => f[a] /= f[b]}

RECURSIVE Flatten(_)
Flatten(ss) == IF ss = << >> THEN << >> ELSE Head(ss) \o Flatten(Tail(ss))

Digit == <<"0", "1", "2", "3", "4", "5", "6", "7", "8", "9">>

\* str(n) for n >= 0
RECURSIVE Str(_)
Str(n) == IF n < 10 THEN <<Digit[n + 1]>> ELSE Str(n \div 10) \o <<Digit[(n % 10) + 1]>>

----------------------------------------------------------------------------
(* The universe the runs are drawn from *)

Prefix == <<"p", "-">>
M1 == <<"m">>
M2 == <<"n">>
ResourceNames == {<<"a">>, <<"b">>}
MetricLists == {<<M1>>, <<M1, M2>>}

\* an alarm somebody put into the backend earlier
ExistingAlarm(name) ==
    [AlarmName |-> name, MetricName |-> <<"dummy">>, Namespace |-> "dummy",
     EvaluationPeriods |-> 1, AlarmActions |-> << >>]

\* names the backend may hold at the start: two that can be desired, two obsolete
\* ones carrying the prefix, one of another owner
BackendNames ==
    { Prefix \o <<"a", "-", "m">>, Prefix \o <<"b", "-", "n">>,
      Prefix \o <<"c", "-", "m">>, Prefix \o <<"d", "-", "m">>,
      <<"q", "-", "a", "-", "m">> }

Backends == {[n \in S |-> ExistingAlarm(n)] : S \in SUBSET BackendNames}

DefaultAlarmParams == [Statistic |-> "Sum", Period |-> 60, Threshold |-> 1]

\* sequences over S of length at most n
SeqsUpTo(S, n) == UNION {[1..k -> S] : k \in 0..n}

----------------------------------------------------------------------------
(* Alarm Specification Builder *)

get_resource_name(api_name) == api_name

\* faulty variant: no separator between resource name and metric name
alarm_name_nodash(cfg, metric_name, resource) ==
    cfg.alarm_name_prefix \o get_resource_name(resource) \o metric_name

alarm_name(cfg, metric_name, resource) ==
    cfg.alarm_name_prefix \o get_resource_name(resource) \o <<"-">> \o metric_name

\* the backquotes around the metric name are written as quotes here
description(metric_name, resource) ==
    <<"Metric Alarm for '">> \o metric_name \o <<"' of ">> \o get_resource_name(resource)

namespace(cfg) == cfg.namespace

metric_names(cfg, resource) == cfg.metrics

dimensions(metric_name, api_name) == <<[Name |-> "ApiName", Value |-> api_name]>>

\* None is << >>: the caller only tests the result for truthiness
param_overrides(cfg, metric_name, resource) ==
    IF Truthy(cfg.alarm_param_overrides)
    THEN LET params == Get(cfg.alarm_param_overrides, metric_name, << >>)
         IN IF Truthy(params) THEN params ELSE << >>
    ELSE << >>

metric_alarm(cfg, metric, resource) ==
    LET param == [AlarmName |-> alarm_name(cfg, metric, resource),
                  AlarmDescription |-> description(metric, resource),
                  MetricName |-> metric,
                  Namespace |-> namespace(cfg),
                  Dimensions |-> dimensions(metric, resource)]
        overrides == param_overrides(cfg, metric, resource)
    IN IF Truthy(overrides) THEN Merge(param, overrides) ELSE param

get_metric_alarms(cfg, resources) ==
    Flatten([r \in 1..Len(resources) |->
                [m \in 1..Len(metric_names(cfg, resources[r])) |->
                    metric_alarm(cfg, metric_names(cfg, resources[r])[m], resources[r])]])

get_target_metrics(cfg, resources) == get_metric_alarms(cfg, resources)

----------------------------------------------------------------------------
(* The CloudWatch backend *)

PrefixNames(be, prefix) == {n \in DOMAIN be : StartsWith(n, prefix)}

\* The responses describe_alarms may give: the alarms carrying the prefix are
\* served in a fixed order from the offset the token names, at least one and
\* at most MaxRecs of them; the last page carries no token or an empty one.
describe_alarms(be, NextToken, AlarmNamePrefix, MaxRecs) ==
    LET listed == SetToSeq(PrefixNames(be, AlarmNamePrefix))
        off == IF NextToken = << >> THEN 0 ELSE NextToken[1]
        rem == Len(listed) - off
        page(k) == [j \in 1..k |-> be[listed[off + j]]]
        last(p) == {[MetricAlarms |-> p], [MetricAlarms |-> p, NextToken |-> << >>]}
    IN IF rem <= 0 THEN last(<< >>)
       ELSE UNION {IF off + k < Len(listed)
                   THEN {[MetricAlarms |-> page(k), NextToken |-> <<off + k>>]}
                   ELSE last(page(k)) : k \in 1..Min(MaxRecs, rem)}

\* faulty variant: an alarm that exists is left as it is
put_metric_alarm_if_absent(be, alarm_param) ==
    LET name == alarm_param["AlarmName"]
    IN [n \in (DOMAIN be) \cup {name} |-> IF n \in DOMAIN be THEN be[n] ELSE alarm_param]

put_metric_alarm(be, alarm_param) ==
    LET name == alarm_param["AlarmName"]
    IN [n \in (DOMAIN be) \cup {name} |-> IF n = name THEN alarm_param ELSE be[n]]

delete_alarms(be, AlarmNames) ==
    [n \in (DOMAIN be) \ Range(AlarmNames) |-> be[n]]

Call(op, ok, arg) == [op |-> op, ok |-> ok, arg |-> arg]

\* faulty variant: the request leaves out the name prefix
describe_current_alarms_noprefix(be, tok, alarm_name_prefix) ==
    describe_alarms(be, tok, << >>, MaxRecords)

\* the request _get_current_alarms sends
describe_current_alarms(be, tok, alarm_name_prefix) ==
    describe_alarms(be, tok, alarm_name_prefix, MaxRecords)

\* faulty variant: the loop stops after the first page
more_results_never(next_token) == FALSE

\* the test that keeps the loop of _get_current_alarms going
more_results(next_token) == Truthy(next_token) /\ next_token /= << >>

----------------------------------------------------------------------------
(* Changeset Calculator: AlarmHandler.get_alarms_change_set *)

alarm_names(alarms) == {alarms[j]["AlarmName"] : j \in 1..Len(alarms)}

\* faulty variant: every desired alarm is created, existing or not
need_to_create_all(alarm_params, current_alarm_names) == alarm_params

\* faulty variant: the right alarms in the opposite order
need_to_create_reversed(alarm_params, current_alarm_names) ==
    LET missing == SelectSeq(alarm_params,
                             LAMBDA alm : alm["AlarmName"] \notin current_alarm_names)
    IN [j \in 1..Len(missing) |-> missing[Len(missing) + 1 - j]]

need_to_create(alarm_params, current_alarm_names) ==
    SelectSeq(alarm_params, LAMBDA alm : alm["AlarmName"] \notin current_alarm_names)

\* faulty variant: the operands of the difference exchanged
need_to_delete_swapped(current_alarm_names, required_alarm_names) ==
    required_alarm_names \ current_alarm_names

need_to_delete(current_alarm_names, required_alarm_names) ==
    current_alarm_names \ required_alarm_names

no_update(current_alarm_names, to_del) == current_alarm_names \ to_del

----------------------------------------------------------------------------
(* Apply Engine: AlarmHandler.update_alarms *)

\* faulty variant: the additional actions come first
alarm_notif_distinations_swapped(cfg, additional_alarm_actions) ==
    additional_alarm_actions \o cfg.alarm_actions

alarm_notif_distinations(cfg, additional_alarm_actions) ==
    cfg.alarm_actions \o additional_alarm_actions

\* alarm_tagging is an ordered dict: a sequence of <<key, value>> pairs
Tags(alarm_tagging) ==
    [j \in 1..Len(alarm_tagging) |->
        [Key |-> alarm_tagging[j][1], Value |-> alarm_tagging[j][2]]]

\* default_alarm_params after the assignments _create_alarms makes to it
common_param(cfg, additional_alarm_actions) ==
    LET dest == alarm_notif_distinations(cfg, additional_alarm_actions)
        withActions == Merge(cfg.default_alarm_params,
                             [AlarmActions |-> dest, OKActions |-> dest,
                              InsufficientDataActions |-> dest])
    IN IF Truthy(cfg.alarm_tagging)
       THEN Merge(withActions, [Tags |-> Tags(cfg.alarm_tagging)])
       ELSE withActions

\* faulty variant: the defaults overwrite the per-alarm properties
alarm_param_defaults_win(common, alm) == Merge(alm, common)

alarm_param(common, alm) == Merge(common, alm)

\* interval / 1000 as a fraction
get_interval_in_sec(cfg) ==
    [num |-> cfg.api_call_intervals_in_millis, den |-> MillisPerSec]

\* faulty variant: >= where the code has >
Positive_or_zero(q) == q.num >= 0

Positive(q) == q.num > 0

\* the sleep that follows a successful call
Pause(cfg) ==
    LET interval == get_interval_in_sec(cfg)
    IN IF Positive(interval) THEN <<Call("sleep", TRUE, interval)>> ELSE << >>

\* faulty variants: the slice loses its last name, or takes one name too many
Slice_short(s, i, end) == SubSeq(s, i + 1, Min(end, Len(s)) - 1)

Slice_overlap(s, i, end) == SubSeq(s, i + 1, Min(end + 1, Len(s)))

\* alarms_to_delete[i:end]
Slice(s, i, end) == SubSeq(s, i + 1, Min(end, Len(s)))

----------------------------------------------------------------------------
(* Orchestrator: core.main *)

UpdateMsg == <<"!!! UPDATE ALARMS !!!">>
DeclinedMsg == <<"no updates executed..">>
NoUpdatesMsg == <<"all required alarms already exist. no updates executed">>

Answers == {"y", "Y", "n", ""}

\* faulty variant: the case of the answer is ignored
prompt_update_anycase(answer) == answer \in {"y", "Y"}

\* _prompt_update: input(...) == "y"
prompt_update(answer) == answer = "y"

\* faulty variant: only the alarms that do not exist yet are put
alarms_to_update_new_only(all_metrics, cr, update_existing_alarms) == cr

\* faulty variant: every desired alarm is put, whatever the flag says
alarms_to_update_all(all_metrics, cr, update_existing_alarms) == all_metrics

\* main: the first argument of update_alarms
alarms_to_update(all_metrics, cr, update_existing_alarms) ==
    IF update_existing_alarms THEN all_metrics ELSE cr

adding_label == <<"+", " ">>
delete_label == <<"-", " ">>
exists_label(anyway_update) == IF ~anyway_update THEN <<" ", " ">> ELSE <<"U", " ">>

print_chagne_set(cr, no_upd, to_del, anyway_update) ==
    [j \in 1..Len(cr) |-> adding_label \o cr[j]["AlarmName"]]
    \o [j \in 1..Len(no_upd) |-> exists_label(anyway_update) \o no_upd[j]]
    \o [j \in 1..Len(to_del) |-> delete_label \o to_del[j]]

\* faulty variant: kept alarms count as updates whatever the flag says
has_updates_any_keep(cr, no_upd, to_del, update_existing_alarms) ==
    Truthy(cr) \/ Truthy(to_del) \/ Truthy(no_upd)

\* main: is there anything to apply
has_updates(cr, no_upd, to_del, update_existing_alarms) ==
    Truthy(cr) \/ Truthy(to_del) \/ (Truthy(no_upd) /\ update_existing_alarms)

\* how a finished run ended, read from what it printed
Outcome(printed) ==
    IF UpdateMsg \in Range(printed) THEN "applied"
    ELSE IF DeclinedMsg \in Range(printed) THEN "declined"
    ELSE "no_updates"

\* main, up to the construction of the AlarmHandler
GetTargetMetrics ==
    /\ pc = "main"
    /\ config' = opts.config_file
    /\ target_metrics' = get_target_metrics(config', inventory)
    /\ token' = << >>
    /\ current_alarms' = << >>
    /\ pc' = "describe"
    /\ UNCHANGED <<opts, inventory, backend, backend0, run, create, keep, delete,
                   to_create, to_delete, idx, calls, out, prev>>

\* one iteration of the loop of _get_current_alarms
DescribeAlarms ==
    /\ pc = "describe"
    /\ \/ \E resp \in describe_current_alarms(backend, token, config.alarm_name_prefix) :
            LET next_token == Get(resp, "NextToken", << >>)
            IN /\ current_alarms' = current_alarms \o resp.MetricAlarms
               /\ IF more_results(next_token)
                  THEN token' = next_token /\ pc' = "describe"
                  ELSE token' = token /\ pc' = "changeset"
       \/ /\ pc' = "error"
          /\ UNCHANGED <<token, current_alarms>>
    /\ UNCHANGED <<config, opts, inventory, backend, backend0, run, target_metrics,
                   create, keep, delete, to_create, to_delete, idx, calls, out, prev>>

\* get_alarms_change_set, once every page has been read
ComputeChangeSet ==
    /\ pc = "changeset"
    /\ LET current_alarm_names == alarm_names(current_alarms)
           required_alarm_names == alarm_names(target_metrics)
           to_del == need_to_delete(current_alarm_names, required_alarm_names)
       IN /\ create' = need_to_create(target_metrics, current_alarm_names)
          /\ keep' \in ListOf(no_update(current_alarm_names, to_del))
          /\ delete' \in ListOf(to_del)
    /\ pc' = "print"
    /\ UNCHANGED <<config, opts, inventory, backend, backend0, run, target_metrics,
                   token, current_alarms, to_create, to_delete, idx, calls, out, prev>>

\* main: print the changeset and decide what to do with it
PrintChangeSet ==
    /\ pc = "print"
    /\ LET lines == print_chagne_set(create, keep, delete, opts.update_existing_alarms)
       IN IF has_updates(create, keep, delete, opts.update_existing_alarms)
          THEN /\ out' = out \o lines
               /\ pc' = IF ~opts.confirm_changeset THEN "apply" ELSE "prompt"
          ELSE /\ out' = out \o lines \o <<NoUpdatesMsg>>
               /\ pc' = "done"
    /\ UNCHANGED <<config, opts, inventory, backend, backend0, run, target_metrics,
                   token, current_alarms, create, keep, delete, to_create, to_delete,
                   idx, calls, prev>>

\* _prompt_update and the branch on its answer
Prompt ==
    /\ pc = "prompt"
    /\ \E ans \in Answers :
          /\ calls' = Append(calls, Call("input", TRUE, ans))
          /\ IF prompt_update(ans)
             THEN pc' = "apply" /\ out' = out
             ELSE pc' = "done" /\ out' = Append(out, DeclinedMsg)
    /\ UNCHANGED <<config, opts, inventory, backend, backend0, run, target_metrics,
                   token, current_alarms, create, keep, delete, to_create, to_delete,
                   idx, prev>>

\* main: the call of update_alarms
Apply ==
    /\ pc = "apply"
    /\ out' = Append(out, UpdateMsg)
    /\ to_create' = alarms_to_update(target_metrics, create, opts.update_existing_alarms)
    /\ to_delete' = delete
    /\ pc' = "update"
    /\ UNCHANGED <<config, opts, inventory, backend, backend0, run, target_metrics,
                   token, current_alarms, create, keep, delete, idx, calls, prev>>

----------------------------------------------------------------------------
(* update_alarms as a sequence of backend calls *)

AfterCreate(to_del) == IF Len(to_del) > 0 THEN "delete" ELSE "done"

\* faulty variant: the exception is swallowed and the loop goes on
on_error_resume(resume) == resume

\* no except clause anywhere in update_alarms or main: an exception of a
\* backend call ends the run, whatever would have come next
on_error(resume) == "error"

\* faulty variant: the delete loop runs first and the create loop never
update_alarms_delete_first(to_cr, to_del) == AfterCreate(to_del)

\* update_alarms: _create_alarms runs before _delete_alarms
update_alarms_first(to_cr, to_del) ==
    IF Len(to_cr) > 0 THEN "create" ELSE AfterCreate(to_del)

\* update_alarms up to the first iteration of the create loop
BeginUpdate ==
    /\ pc = "update"
    /\ config' = [config EXCEPT !.default_alarm_params =
                      common_param(config, opts.notification_topic_arn)]
    /\ idx' = IF Len(to_create) > 0 THEN 1 ELSE 0
    /\ pc' = update_alarms_first(to_create, to_delete)
    /\ UNCHANGED <<opts, inventory, backend, backend0, run, target_metrics, token,
                   current_alarms, create, keep, delete, to_create, to_delete,
                   calls, out, prev>>

\* one iteration of the loop of _create_alarms
CreateAlarm ==
    /\ pc = "create"
    /\ LET param == alarm_param(config.default_alarm_params, to_create[idx])
       IN \/ /\ backend' = put_metric_alarm(backend, param)
             /\ calls' = Append(calls, Call("put_metric_alarm", TRUE, param)) \o Pause(config)
             /\ IF idx < Len(to_create)
                THEN idx' = idx + 1 /\ pc' = "create"
                ELSE idx' = 0 /\ pc' = AfterCreate(to_delete)
          \/ /\ calls' = Append(calls, Call("put_metric_alarm", FALSE, param))
             /\ pc' = on_error("create")
             /\ UNCHANGED <<backend, idx>>
    /\ UNCHANGED <<config, opts, inventory, backend0, run, target_metrics, token,
                   current_alarms, create, keep, delete, to_create, to_delete, out, prev>>

\* one iteration of the loop of _delete_alarms
DeleteAlarms ==
    /\ pc = "delete"
    /\ LET end == idx + chunk_size
           chunk == Slice(to_delete, idx, end)
       IN \/ /\ backend' = delete_alarms(backend, chunk)
             /\ calls' = Append(calls, Call("delete_alarms", TRUE, chunk)) \o Pause(config)
             /\ idx' = end
             /\ pc' = IF end < Len(to_delete) THEN "delete" ELSE "done"
          \/ /\ calls' = Append(calls, Call("delete_alarms", FALSE, chunk))
             /\ pc' = on_error("delete")
             /\ UNCHANGED <<backend, idx>>
    /\ UNCHANGED <<config, opts, inventory, backend0, run, target_metrics, token,
                   current_alarms, create, keep, delete, to_create, to_delete, out, prev>>

\* the command is run again with the same options, configuration and inventory
Rerun ==
    /\ pc = "done"
    /\ run < MaxRuns
    /\ run' = run + 1
    /\ prev' = Outcome(out)
    /\ backend0' = backend
    /\ pc' = "main"
    /\ token' = << >>
    /\ current_alarms' = << >>
    /\ target_metrics' = << >>
    /\ create' = << >>
    /\ keep' = << >>
    /\ delete' = << >>
    /\ to_create' = << >>
    /\ to_delete' = << >>
    /\ idx' = 0
    /\ calls' = << >>
    /\ out' = << >>
    /\ UNCHANGED <<config, opts, inventory, backend>>

----------------------------------------------------------------------------
(* Spec: runs of main *)

Configs ==
    [alarm_name_prefix : {Prefix},
     alarm_actions : {<<"t1">>},
     default_alarm_params : {DefaultAlarmParams},
     alarm_tagging : {<< >>},
     api_call_intervals_in_millis : {0, 334},
     namespace : {"AWS/ApiGateway"},
     metrics : MetricLists,
     alarm_param_overrides : {M1 :> [Threshold |-> 3600]}]

Opts ==
    [confirm_changeset : BOOLEAN,
     update_existing_alarms : BOOLEAN,
     notification_topic_arn : {<<"t2">>},
     config_file : Configs]

Idle ==
    /\ token = << >>
    /\ current_alarms = << >>
    /\ target_metrics = << >>
    /\ create = << >>
    /\ keep = << >>
    /\ delete = << >>
    /\ idx = 0
    /\ calls = << >>
    /\ out = << >>
    /\ run = 1
    /\ prev = "none"

Init ==
    /\ opts \in Opts
    /\ config = opts.config_file
    /\ inventory \in SeqsUpTo(ResourceNames, MaxResources)
    /\ backend \in Backends
    /\ backend0 = backend
    /\ pc = "main"
    /\ to_create = << >>
    /\ to_delete = << >>
    /\ Idle

Next ==
    \/ GetTargetMetrics
    \/ DescribeAlarms
    \/ ComputeChangeSet
    \/ PrintChangeSet
    \/ Prompt
    \/ Apply
    \/ BeginUpdate
    \/ CreateAlarm
    \/ DeleteAlarms
    \/ Rerun

Spec == Init /\ [][Next]_vars

----------------------------------------------------------------------------
(* SpecUpdate: update_alarms called directly on a handler *)

UpdateConfigs ==
    [alarm_name_prefix : {Prefix},
     alarm_actions : {<< >>, <<"t1">>, <<"t1", "t3">>},
     default_alarm_params : {DefaultAlarmParams, [Statistic |-> "Average"]},
     alarm_tagging : {<< >>, << <<"team", "x">>, <<"env", "y">> >>},
     api_call_intervals_in_millis : {0, 334},
     namespace : {"AWS/ApiGateway"},
     metrics : {<<M1, M2>>},
     alarm_param_overrides : {M1 :> [Threshold |-> 3600]}]

PlainConfig ==
    [alarm_name_prefix |-> Prefix,
     alarm_actions |-> <<"t1">>,
     default_alarm_params |-> DefaultAlarmParams,
     alarm_tagging |-> << >>,
     api_call_intervals_in_millis |-> 334,
     namespace |-> "AWS/ApiGateway",
     metrics |-> <<M1, M2>>,
     alarm_param_overrides |-> M1 :> [Threshold |-> 3600]]

AdditionalActions == {<< >>, <<"t1">>, <<"t2">>}

\* the alarm specifications a caller may pass
AlarmSpecs(cfg) == {metric_alarm(cfg, m, r) : m \in {M1, M2}, r \in ResourceNames}

\* prefix0, prefix1, ... : n names in this order
NumberedNames(n) == [j \in 1..n |-> Prefix \o Str(j - 1)]

OtherOwner == <<"q", "-", "a", "-", "m">>

\* the alarms to delete exist, and so does one alarm of another owner
BackendWith(names) ==
    [n \in Range(names) \cup {OtherOwner} |-> ExistingAlarm(n)]

InitUpdate ==
    /\ \/ \* long delete lists, at most one alarm to create
          /\ \E interval \in {0, 334} :
                config = [PlainConfig EXCEPT !.api_call_intervals_in_millis = interval]
          /\ \E additional \in {<<"t2">>} :
                opts = [confirm_changeset |-> FALSE, update_existing_alarms |-> FALSE,
                        notification_topic_arn |-> additional, config_file |-> config]
          /\ to_create \in SeqsUpTo(AlarmSpecs(config), 1)
          /\ \E n \in 0..MaxDeleteLen : to_delete = NumberedNames(n)
       \/ \* every configuration, short lists
          /\ config \in UpdateConfigs
          /\ \E additional \in AdditionalActions :
                opts = [confirm_changeset |-> FALSE, update_existing_alarms |-> FALSE,
                        notification_topic_arn |-> additional, config_file |-> config]
          /\ to_create \in SeqsUpTo(AlarmSpecs(config), MaxCreateLen)
          /\ \E n \in 0..1 : to_delete = NumberedNames(n)
    /\ inventory = << >>
    /\ backend = BackendWith(to_delete)
    /\ backend0 = backend
    /\ pc = "update"
    /\ Idle

NextUpdate ==
    \/ BeginUpdate
    \/ CreateAlarm
    \/ DeleteAlarms

SpecUpdate == InitUpdate /\ [][NextUpdate]_vars

----------------------------------------------------------------------------
(* Properties *)

\* the changeset of the current run has been computed
Computed == pc \in {"print", "prompt", "apply", "update", "create", "delete", "done"}

Puts == SelectSeq(calls, LAMBDA c : c.op = "put_metric_alarm")
Deletes == SelectSeq(calls, LAMBDA c : c.op = "delete_alarms")
Sleeps == SelectSeq(calls, LAMBDA c : c.op = "sleep")
OkPuts == SelectSeq(Puts, LAMBDA c : c.ok)
OkDeletes == SelectSeq(Deletes, LAMBDA c : c.ok)
AnsweredYes == \E j \in 1..Len(calls) : calls[j].op = "input" /\ calls[j].arg = "y"

\* names the create and delete calls of this run have named
PutNames == {Puts[j].arg["AlarmName"] : j \in 1..Len(Puts)}
DeletedNames == UNION {Range(Deletes[j].arg) : j \in 1..Len(Deletes)}

\* C1: with C the names the backend returned and D the names of the desired
\* specs, the changeset has names(toCreate) = D \ C, toDelete = C \ D and
\* toKeep = C \cap D; the three are pairwise disjoint and cover C \cup D.
C1_DiffCorrect ==
    Computed =>
        LET C == alarm_names(current_alarms)
            D == alarm_names(target_metrics)
            cr == alarm_names(create)
            kp == Range(keep)
            dl == Range(delete)
        IN /\ cr = D \ C
           /\ dl = C \ D
           /\ kp = C \cap D
           /\ cr \cap kp = {} /\ cr \cap dl = {} /\ kp \cap dl = {}
           /\ cr \cup kp \cup dl = C \cup D
           /\ Len(keep) = Cardinality(kp)
           /\ Len(delete) = Cardinality(dl)

C1_Witness ==
    /\ pc = "print"
    /\ Len(create) >= 2
    /\ Len(keep) >= 1
    /\ Len(delete) >= 2

\* C2: an alarm whose name does not start with alarm_name_prefix is in none
\* of toCreate, toKeep, toDelete, is named by no create or delete call, and
\* is in the backend with the parameters it had when the run started.
C2_OtherPrefixUntouched ==
    \A n \in DOMAIN backend0 :
        ~StartsWith(n, config.alarm_name_prefix) =>
            /\ n \notin alarm_names(create)
            /\ n \notin Range(keep)
            /\ n \notin Range(delete)
            /\ n \notin PutNames
            /\ n \notin DeletedNames
            /\ n \in DOMAIN backend
            /\ backend[n] = backend0[n]

C2_Witness ==
    /\ pc = "done"
    /\ run = MaxRuns
    /\ OtherOwner \in DOMAIN backend
    /\ Len(OkPuts) >= 1
    /\ Len(OkDeletes) >= 1
    /\ opts.update_existing_alarms

\* C3: once a run has applied its changeset without error, the changeset the
\* next run computes for the same desired specs has an empty toCreate and an
\* empty toDelete, and toKeep is the set of desired names.
C3_Idempotent ==
    (run >= 2 /\ prev = "applied" /\ Computed) =>
        /\ create = << >>
        /\ delete = << >>
        /\ Range(keep) = alarm_names(target_metrics)

\* the alarms update_alarms created carry a description, the older ones do not
ToolCreated(be) == {n \in DOMAIN be : "AlarmDescription" \in DOMAIN be[n]}

C3_Witness ==
    /\ run = 2
    /\ prev = "applied"
    /\ pc = "print"
    /\ ~opts.update_existing_alarms
    /\ Cardinality(ToolCreated(backend0)) >= 2
    /\ Len(keep) > Cardinality(ToolCreated(backend0))

\* C4: when the describe loop has ended, the alarms it yielded are exactly the
\* backend's alarms carrying the prefix, each once, however the backend cut
\* them into pages.
C4_PaginationComplete ==
    pc = "changeset" =>
        /\ alarm_names(current_alarms) = PrefixNames(backend, config.alarm_name_prefix)
        /\ Len(current_alarms) = Cardinality(PrefixNames(backend, config.alarm_name_prefix))

\* the loop sent a non-empty token, so it read more than one page
C4_Witness ==
    /\ pc = "changeset"
    /\ token /= << >>
    /\ token[1] >= 2
    /\ Len(current_alarms) >= 4

\* C5: a run that ends without error, with confirmation disabled or the prompt
\* answered "y", leaves the backend's prefix alarms equal to the desired names.
C5_Converges ==
    (pc = "done" /\ (~opts.confirm_changeset \/ AnsweredYes)) =>
        PrefixNames(backend, config.alarm_name_prefix) = alarm_names(target_metrics)

C5_Witness ==
    /\ pc = "done"
    /\ AnsweredYes
    /\ Len(OkPuts) >= 2
    /\ Len(OkDeletes) >= 1
    /\ Len(delete) >= 2

\* C10: when toCreate and toDelete are empty and update_existing_alarms is
\* unset, main goes from printing the changeset straight to its end: no
\* prompt, no create or delete call, the backend as it was, and the
\* "no updates" message printed.
C10_NoUpdates ==
    (/\ pc \in {"prompt", "apply", "update", "create", "delete", "done"}
     /\ create = << >>
     /\ delete = << >>
     /\ ~opts.update_existing_alarms) =>
        /\ pc = "done"
        /\ calls = << >>
        /\ backend = backend0
        /\ out[Len(out)] = NoUpdatesMsg

C10_Witness ==
    /\ pc = "done"
    /\ create = << >>
    /\ delete = << >>
    /\ ~opts.update_existing_alarms
    /\ opts.confirm_changeset
    /\ Len(keep) >= 2
    /\ out[Len(out)] = NoUpdatesMsg

\* ceil(n / d)
CeilDiv(n, d) == (n + d - 1) \div d

\* C6: a finished _delete_alarms has sent ceil(n/100) delete calls for a list
\* of n names, each with 1 to 100 names, and the calls' lists put end to end
\* are the list it was given.
C6_DeleteChunks ==
    pc = "done" =>
        /\ Len(Deletes) = CeilDiv(Len(to_delete), 100)
        /\ \A j \in 1..Len(Deletes) :
              Len(Deletes[j].arg) >= 1 /\ Len(Deletes[j].arg) <= 100
        /\ Flatten([j \in 1..Len(Deletes) |-> Deletes[j].arg]) = to_delete

C6_Witness ==
    /\ pc = "done"
    /\ Len(to_delete) = 201
    /\ Len(Deletes) = 3
    /\ Len(Deletes[1].arg) = 100
    /\ Len(Deletes[2].arg) = 100
    /\ Len(Deletes[3].arg) = 1

IsMutation(c) == c.op \in {"put_metric_alarm", "delete_alarms"}

\* C7: with a positive interval every create call and every delete call that
\* returned is followed at once by one sleep of interval/1000 seconds, the
\* last call included, and there is no other sleep, so that a finished
\* update_alarms has slept once per create call and once per delete call;
\* with interval 0 there is no sleep at all.
C7_PausePolicy ==
    LET ms == config.api_call_intervals_in_millis
    IN /\ ms > 0 =>
            /\ \A j \in 1..Len(calls) :
                  (IsMutation(calls[j]) /\ calls[j].ok) =>
                      /\ j < Len(calls)
                      /\ calls[j + 1].op = "sleep"
                      /\ calls[j + 1].arg = [num |-> ms, den |-> 1000]
            /\ \A j \in 1..Len(calls) :
                  calls[j].op = "sleep" =>
                      j > 1 /\ IsMutation(calls[j - 1]) /\ calls[j - 1].ok
            /\ Len(Sleeps) = Len(OkPuts) + Len(OkDeletes)
            /\ pc = "done" => Len(Sleeps) = Len(Puts) + Len(Deletes)
       /\ ms = 0 => Sleeps = << >>

C7_Witness ==
    /\ pc = "done"
    /\ config.api_call_intervals_in_millis > 0
    /\ Len(OkPuts) = 1
    /\ Len(OkDeletes) = 3
    /\ Len(Sleeps) = 4
    /\ calls[Len(calls)].op = "sleep"

\* the same calls with interval 0
C7_WitnessZero ==
    /\ pc = "done"
    /\ config.api_call_intervals_in_millis = 0
    /\ Len(OkPuts) = 1
    /\ Len(OkDeletes) = 3

\* C8: the parameters of the j-th create call are the per-alarm properties of
\* the j-th alarm to create laid over default_alarm_params: a key of the
\* per-alarm properties has the per-alarm value, any other key of the
\* defaults has the default value.
C8_OverridePrecedence ==
    LET defaults == opts.config_file.default_alarm_params
    IN \A j \in 1..Len(Puts) :
          LET alm == to_create[j]
              param == Puts[j].arg
          IN /\ \A k \in DOMAIN alm : k \in DOMAIN param /\ param[k] = alm[k]
             /\ \A k \in (DOMAIN defaults) \ (DOMAIN alm) :
                   k \in DOMAIN param /\ param[k] = defaults[k]

\* Threshold comes from the alarm, Statistic and Period from the defaults
C8_Witness ==
    /\ opts.config_file.default_alarm_params = DefaultAlarmParams
    /\ \E j \in 1..Len(OkPuts) :
          /\ "Threshold" \in DOMAIN to_create[j]
          /\ OkPuts[j].arg["Threshold"] = 3600
          /\ OkPuts[j].arg["Statistic"] = "Sum"
          /\ backend[to_create[j]["AlarmName"]] = OkPuts[j].arg

\* C9: every create call carries, as AlarmActions, OKActions and
\* InsufficientDataActions alike, the configured alarm_actions followed by
\* the additional actions, duplicates kept.
C9_Actions ==
    \A j \in 1..Len(Puts) :
        LET expected == opts.config_file.alarm_actions \o opts.notification_topic_arn
        IN /\ Puts[j].arg["AlarmActions"] = expected
           /\ Puts[j].arg["OKActions"] = expected
           /\ Puts[j].arg["InsufficientDataActions"] = expected

C9_Witness ==
    /\ Len(OkPuts) >= 2
    /\ opts.config_file.alarm_actions = <<"t1", "t3">>
    /\ opts.notification_topic_arn = <<"t1">>
    /\ OkPuts[2].arg["AlarmActions"] = <<"t1", "t3", "t1">>

----------------------------------------------------------------------------
(* The confirmation gate, force-update and failures *)

Inputs == SelectSeq(calls, LAMBDA c : c.op = "input")

\* there is something for main to apply
NonEmptyChangeSet ==
    create /= << >> \/ delete /= << >> \/ (keep /= << >> /\ opts.update_existing_alarms)

Applied == UpdateMsg \in Range(out)

\* C11: with confirmation enabled a create or delete call is made only after
\* the one prompt was answered exactly "y"; after any other answer the run
\* ends with no create or delete call and the backend as it was.  With
\* confirmation disabled nothing is prompted and a non-empty changeset is
\* applied.
C11_ConfirmGate ==
    /\ opts.confirm_changeset =>
          /\ (Puts /= << >> \/ Deletes /= << >>) =>
                (Len(Inputs) = 1 /\ Inputs[1].arg = "y")
          /\ (Inputs /= << >> /\ Inputs[1].arg /= "y") =>
                /\ pc = "done"
                /\ Puts = << >>
                /\ Deletes = << >>
                /\ backend = backend0
                /\ ~Applied
          /\ pc \in {"apply", "update", "create", "delete"} => Inputs /= << >>
    /\ ~opts.confirm_changeset =>
          /\ Inputs = << >>
          /\ (pc = "done" /\ NonEmptyChangeSet) =>
                /\ Applied
                /\ Len(OkPuts) = Len(to_create)
                /\ Flatten([j \in 1..Len(OkDeletes) |-> OkDeletes[j].arg]) = delete

\* a changeset with alarms to create and to delete, declined with "Y"
C11_Witness ==
    /\ pc = "done"
    /\ opts.confirm_changeset
    /\ Len(Inputs) = 1
    /\ Inputs[1].arg = "Y"
    /\ create /= << >>
    /\ delete /= << >>
    /\ backend = backend0

\* C12: a run that applies with update_existing_alarms set passes every
\* desired specification to update_alarms, in the builder's order, and
\* toDelete as the delete list; when it ends every desired alarm has been put
\* and is in the backend with the parameters of its put.  Such a run applies
\* whenever toKeep is not empty, toCreate and toDelete being empty or not.
C12_ForceUpdate ==
    /\ (opts.update_existing_alarms /\ Applied /\ pc /= "apply") =>
          /\ to_create = target_metrics
          /\ to_delete = delete
          /\ \A j \in 1..Len(Puts) :
                /\ j <= Len(target_metrics)
                /\ Puts[j].arg["AlarmName"] = target_metrics[j]["AlarmName"]
          /\ pc = "done" =>
                /\ Len(OkPuts) = Len(target_metrics)
                /\ Flatten([j \in 1..Len(OkDeletes) |-> OkDeletes[j].arg]) = delete
                /\ \A j \in 1..Len(target_metrics) :
                      /\ target_metrics[j]["AlarmName"] \in DOMAIN backend
                      /\ backend[target_metrics[j]["AlarmName"]] = OkPuts[j].arg
    /\ (/\ opts.update_existing_alarms
        /\ pc = "done"
        /\ keep /= << >>
        /\ (~opts.confirm_changeset \/ AnsweredYes)) => Applied

\* nothing to create, nothing to delete, the alarms kept are overwritten
C12_Witness ==
    /\ pc = "done"
    /\ opts.update_existing_alarms
    /\ create = << >>
    /\ delete = << >>
    /\ Len(keep) >= 1
    /\ Len(OkPuts) = Len(keep)
    /\ \A j \in 1..Len(keep) :
          /\ keep[j] \in DOMAIN backend0
          /\ backend[keep[j]] /= backend0[keep[j]]
          /\ "AlarmActions" \in DOMAIN backend[keep[j]]
          /\ backend[keep[j]]["AlarmActions"] = <<"t1", "t2">>

Mutations == SelectSeq(calls, IsMutation)

\* the backend after the calls cs have taken effect on be
RECURSIVE Effect(_, _)
Effect(be, cs) ==
    IF cs = << >> THEN be
    ELSE Effect(IF Head(cs).op = "put_metric_alarm"
                THEN put_metric_alarm(be, Head(cs).arg)
                ELSE delete_alarms(be, Head(cs).arg),
                Tail(cs))

\* the j-th mutation call is the j-th call update_alarms has to make: the
\* creates in the order of the list, then the delete chunks in order
IsPlanned(j, c) ==
    IF j <= Len(to_create)
    THEN /\ c.op = "put_metric_alarm"
         /\ c.arg["AlarmName"] = to_create[j]["AlarmName"]
    ELSE LET n == j - Len(to_create)
         IN /\ c.op = "delete_alarms"
            /\ c.arg = SubSeq(to_delete, 100 * (n - 1) + 1, Min(100 * n, Len(to_delete)))

\* C14: the mutation calls of update_alarms are the creates in order, then
\* the delete chunks in order; only the last call made can have failed; once
\* the k-th call has failed update_alarms has ended with the error, makes no
\* further call, and the backend is what the first k-1 calls made of it; no
\* delete call is made after a failed create.
C14_StopOnFirstError ==
    LET k == Len(Mutations)
    IN /\ \A j \in 1..k : IsPlanned(j, Mutations[j])
       /\ \A j \in 1..(k - 1) : Mutations[j].ok
       /\ backend = Effect(backend0, SelectSeq(Mutations, LAMBDA c : c.ok))
       /\ (k >= 1 /\ ~Mutations[k].ok) =>
             /\ pc = "error"
             /\ backend = Effect(backend0, SubSeq(Mutations, 1, k - 1))
             /\ Mutations[k].op = "put_metric_alarm" => Deletes = << >>
       /\ pc = "error" =>
             /\ k >= 1
             /\ ~Mutations[k].ok
             /\ ~ENABLED NextUpdate

\* one create and two delete chunks in effect, the third delete call failed
C14_Witness ==
    /\ pc = "error"
    /\ Len(OkPuts) = 1
    /\ Len(OkDeletes) = 2
    /\ Len(Deletes) = 3
    /\ ~Deletes[3].ok
    /\ Len(to_delete) = 201
    /\ DOMAIN backend = {to_delete[201], OtherOwner, to_create[1]["AlarmName"]}

\* a create failed with names still to delete
C14_WitnessCreate ==
    /\ pc = "error"
    /\ Len(Puts) = 2
    /\ ~Puts[2].ok
    /\ to_delete /= << >>
    /\ Range(to_delete) \subseteq DOMAIN backend

----------------------------------------------------------------------------
(* SpecDiff: get_alarms_change_set over several prefixes, names and orders *)

ShortPrefix == <<"q">>

DiffResources == ResourceNames \cup {<<"a", "-", "m">>}

DiffConfigs ==
    {[PlainConfig EXCEPT !.alarm_name_prefix = prefix, !.metrics = metrics] :
        prefix \in {Prefix, ShortPrefix},
        metrics \in {<<M1>>, <<M1, M2>>, <<M2, M1>>}}

\* an alarm with the properties of the desired alarm of resource b and metric
\* n, under another name
Lookalike(cfg, name) == [metric_alarm(cfg, M2, <<"b">>) EXCEPT !["AlarmName"] = name]

DiffBackendNames ==
    { Prefix \o <<"a", "-", "m">>, Prefix \o <<"c", "-", "m">>,
      ShortPrefix \o <<"a", "-", "m">>, ShortPrefix \o <<"b", "-", "m">>,
      OtherOwner }

DiffBackend(cfg, names) ==
    [n \in names |-> IF n \in {Prefix \o <<"c", "-", "m">>, ShortPrefix \o <<"b", "-", "m">>}
                     THEN Lookalike(cfg, n)
                     ELSE ExistingAlarm(n)]

InitDiff ==
    /\ config \in DiffConfigs
    /\ opts = [confirm_changeset |-> FALSE, update_existing_alarms |-> FALSE,
               notification_topic_arn |-> << >>, config_file |-> config]
    /\ inventory \in SeqsUpTo(DiffResources, MaxResources)
    /\ \E names \in SUBSET DiffBackendNames : backend = DiffBackend(config, names)
    /\ backend0 = backend
    /\ pc = "main"
    /\ to_create = << >>
    /\ to_delete = << >>
    /\ Idle

NextDiff ==
    \/ GetTargetMetrics
    \/ DescribeAlarms
    \/ ComputeChangeSet

SpecDiff == InitDiff /\ [][NextDiff]_vars

\* the desired specifications that are not among the current alarms
Missing ==
    {j \in 1..Len(target_metrics) :
        target_metrics[j]["AlarmName"] \notin alarm_names(current_alarms)}

\* C15: toCreate is the desired list with the specifications of existing names
\* struck out: as many entries as there are desired specifications whose name
\* is no current alarm name, each the whole specification, in the order of
\* the desired list.
C15_CreateSubsequence ==
    pc = "print" =>
        /\ Len(create) = Cardinality(Missing)
        /\ \E f \in [1..Len(create) -> Missing] :
              /\ \A a, b \in 1..Len(create) : a < b => f[a] < f[b]
              /\ \A a \in 1..Len(create) : create[a] = target_metrics[f[a]]

\* the second and the fourth of four desired specifications are to create
C15_Witness ==
    /\ pc = "print"
    /\ Len(target_metrics) = 4
    /\ Missing = {2, 4}
    /\ create = <<target_metrics[2], target_metrics[4]>>
    /\ create[1] /= create[2]
    /\ DOMAIN create[1] = {"AlarmName", "AlarmDescription", "MetricName",
                           "Namespace", "Dimensions"}

\* C16: the name of the desired specification of a resource and a metric is
\* the prefix, the resource name, "-" and the metric name; a desired
\* specification is kept when a current alarm has its name, whatever else
\* that alarm has, and is to create when none has, whatever else the current
\* alarms have.
C16_AlarmName ==
    /\ pc /= "main" =>
          /\ Len(target_metrics) = Len(inventory) * Len(config.metrics)
          /\ \A r \in 1..Len(inventory) : \A m \in 1..Len(config.metrics) :
                target_metrics[(r - 1) * Len(config.metrics) + m]["AlarmName"]
                    = config.alarm_name_prefix \o inventory[r] \o <<"-">> \o config.metrics[m]
    /\ pc = "print" =>
          \A j \in 1..Len(target_metrics) :
             LET name == target_metrics[j]["AlarmName"]
                 named == \E i \in 1..Len(current_alarms) :
                              current_alarms[i]["AlarmName"] = name
             IN /\ named => (name \in Range(keep) /\ name \notin alarm_names(create)
                             /\ name \notin Range(delete))
                /\ ~named => (target_metrics[j] \in Range(create)
                              /\ name \notin Range(keep))

\* the alarm of b and n is to create though an alarm with all its properties
\* but the name exists, and the alarm of a and m is kept though the existing
\* alarm of that name shares no other property with it
C16_Witness ==
    /\ pc = "print"
    /\ config.alarm_name_prefix = ShortPrefix
    /\ \E j \in 1..Len(create) : \E i \in 1..Len(current_alarms) :
          /\ create[j] = metric_alarm(config, M2, <<"b">>)
          /\ create[j]["AlarmName"] = <<"q", "b", "-", "n">>
          /\ current_alarms[i] = Lookalike(config, current_alarms[i]["AlarmName"])
    /\ <<"q", "a", "-", "m">> \in Range(keep)
    /\ <<"q", "-", "a", "-", "m">> \in Range(delete)

----------------------------------------------------------------------------
(* Regular expressions: the part of Python's re that the providers' ARN    *)
(* patterns and the configured name patterns use.  A pattern is compiled   *)
(* from its text; matching backtracks in Python's order: a star takes all  *)
(* it can and gives back one character at a time, alternatives are tried   *)
(* from left to right.                                                     *)

Letters ==
    <<"a", "b", "c", "d", "e", "f", "g", "h", "i", "j", "k", "l", "m",
      "n", "o", "p", "q", "r", "s", "t", "u", "v", "w", "x", "y", "z">>

CharOrder == Digit \o Letters

Ord(c) == CHOOSE k \in 1..Len(CharOrder) : CharOrder[k] = c

\* the least position >= i of character c in p, 0 when there is none
RECURSIVE IndexOf(_, _, _)
IndexOf(p, c, i) ==
    IF i > Len(p) THEN 0 ELSE IF p[i] = c THEN i ELSE IndexOf(p, c, i + 1)

\* str.split(c)
RECURSIVE Split(_, _)
Split(p, c) ==
    LET k == IndexOf(p, c, 1)
    IN IF k = 0 THEN <<p>>
       ELSE <<SubSeq(p, 1, k - 1)>> \o Split(SubSeq(p, k + 1, Len(p)), c)

\* the characters of the body of a bracket expression: x and x-y
RECURSIVE ClassChars(_)
ClassChars(b) ==
    IF b = << >> THEN {}
    ELSE IF Len(b) >= 3 /\ b[2] = "-"
    THEN {CharOrder[k] : k \in Ord(b[1])..Ord(b[3])} \cup ClassChars(SubSeq(b, 4, Len(b)))
    ELSE {b[1]} \cup ClassChars(Tail(b))

\* the elements of a compiled pattern
Bol == [kind |-> "bol", neg |-> FALSE, chars |-> {}, star |-> FALSE, alts |-> << >>]
SetOf(neg, chars, star) ==
    [kind |-> "set", neg |-> neg, chars |-> chars, star |-> star, alts |-> << >>]
AltOf(alts) == [kind |-> "alt", neg |-> FALSE, chars |-> {}, star |-> FALSE, alts |-> alts]

\* re.compile: ^ , (x|y) , [...] , [^...] , . , a literal character, each of
\* the last four with an optional *
RECURSIVE re_compile(_)
re_compile(p) ==
    IF p = << >> THEN << >>
    ELSE IF p[1] = "^" THEN <<Bol>> \o re_compile(Tail(p))
    ELSE IF p[1] = "("
    THEN LET close == IndexOf(p, ")", 1)
         IN <<AltOf(Split(SubSeq(p, 2, close - 1), "|"))>>
            \o re_compile(SubSeq(p, close + 1, Len(p)))
    ELSE LET close == IF p[1] = "[" THEN IndexOf(p, "]", 1) ELSE 1
             body == SubSeq(p, 2, close - 1)
             neg == p[1] = "." \/ (p[1] = "[" /\ body /= << >> /\ body[1] = "^")
             chars == IF p[1] = "[" THEN ClassChars(IF neg THEN Tail(body) ELSE body)
                      ELSE IF p[1] = "." THEN {}
                      ELSE {p[1]}
             star == close < Len(p) /\ p[close + 1] = "*"
             rest == SubSeq(p, close + (IF star THEN 2 ELSE 1), Len(p))
         IN <<SetOf(neg, chars, star)>> \o re_compile(rest)

InSet(e, c) == (c \in e.chars) /= e.neg

\* the length of the longest run of characters of e after the first j of s
RECURSIVE Run(_, _, _)
Run(e, s, j) == IF j < Len(s) /\ InSet(e, s[j + 1]) THEN 1 + Run(e, s, j + 1) ELSE 0

\* where the match of the elements re[i], re[i+1], ... ends that starts after
\* the first j characters of s; -1 when there is none
RECURSIVE MatchFrom(_, _, _, _)
RECURSIVE TryStar(_, _, _, _, _)
RECURSIVE TryAlt(_, _, _, _, _)
MatchFrom(re, i, s, j) ==
    IF i > Len(re) THEN j
    ELSE IF re[i].kind = "bol"
    THEN IF j = 0 THEN MatchFrom(re, i + 1, s, j) ELSE -1
    ELSE IF re[i].kind = "alt" THEN TryAlt(re, i, s, j, 1)
    ELSE IF re[i].star THEN TryStar(re, i, s, j, Run(re[i], s, j))
    ELSE IF j < Len(s) /\ InSet(re[i], s[j + 1]) THEN MatchFrom(re, i + 1, s, j + 1)
    ELSE -1

TryStar(re, i, s, j, n) ==
    LET end == MatchFrom(re, i + 1, s, j + n)
    IN IF end /= -1 THEN end
       ELSE IF n = 0 THEN -1
       ELSE TryStar(re, i, s, j, n - 1)

TryAlt(re, i, s, j, k) ==
    IF k > Len(re[i].alts) THEN -1
    ELSE LET a == re[i].alts[k]
             end == IF j + Len(a) <= Len(s) /\ SubSeq(s, j + 1, j + Len(a)) = a
                    THEN MatchFrom(re, i + 1, s, j + Len(a))
                    ELSE -1
         IN IF end /= -1 THEN end ELSE TryAlt(re, i, s, j, k + 1)

\* faulty variant: the pattern has to match the whole string
re_match_full(re, s) == MatchFrom(re, 1, s, 0) = Len(s)

\* Pattern.match(s) is not None
re_match(re, s) == MatchFrom(re, 1, s, 0) /= -1

RECURSIVE SubFrom(_, _, _)
SubFrom(re, s, j) ==
    IF j > Len(s) THEN s
    ELSE LET end == MatchFrom(re, 1, s, j)
         IN IF end /= -1 THEN SubSeq(s, 1, j) \o SubSeq(s, end + 1, Len(s))
            ELSE SubFrom(re, s, j + 1)

\* Pattern.sub("", s, 1): the leftmost match is cut out of s
re_sub(re, s) == SubFrom(re, s, 0)

----------------------------------------------------------------------------
(* The providers of the monitoring_targets package *)

default_arn_pattern ==
    re_compile(<<"^", "a", "r", "n", ":", "a", "w", "s", ":", "[", "^",
                 ":", "]", "*", ":", "[", "^", ":", "]", "*", ":", "[",
                 "0", "-", "9", "]", "*", ":", "[", "^", ":", "]", "*",
                 ":">>)

arn_pattern_no_restype ==
    re_compile(<<"^", "a", "r", "n", ":", "a", "w", "s", ":", "[", "^",
                 ":", "]", "*", ":", "[", "^", ":", "]", "*", ":", "[",
                 "0", "-", "9", "]", "*", ":">>)

arn_pattern_name_by_slash ==
    re_compile(<<"^", "a", "r", "n", ":", "a", "w", "s", ":", "[", "^",
                 ":", "]", "*", ":", "[", "^", ":", "]", "*", ":", "[",
                 "0", "-", "9", "]", "*", ":", "[", "^", ":", "]", "*",
                 "/">>)

arn_api_stage ==
    re_compile(<<"^", "a", "r", "n", ":", "a", "w", "s", ":", "a", "p",
                 "i", "g", "a", "t", "e", "w", "a", "y", ":", "[", "^",
                 ":", "]", "*", ":", ":", "/", "a", "p", "i", "s", "/",
                 "[", "^", "/", "]", "*", "/", "s", "t", "a", "g", "e",
                 "s", "/", ".", "*">>)

\* a provider class built on the resource groups tagging API: how it cuts the
\* resource name out of an ARN, its dimension, its default namespace, and
\* whether its filter drops stage ARNs
RgtaProvider(arn_pattern, dimension_name, dimension_value, default_namespace, no_stages) ==
    [base |-> "rgta", arn_pattern |-> arn_pattern, dimension_name |-> dimension_name,
     dimension_value |-> dimension_value, default_namespace |-> <<default_namespace>>,
     no_stages |-> no_stages]

\* _get_provider_dict: the classes the decorator registered, by resource type
provider_dict ==
    ("lambda:function" :>
        RgtaProvider(default_arn_pattern, "FunctionName", "name", "AWS/Lambda", FALSE))
    @@ ("states:stateMachine" :>
        RgtaProvider(default_arn_pattern, "StateMachineArn", "arn", "AWS/States", FALSE))
    @@ ("sns:topic" :>
        RgtaProvider(arn_pattern_no_restype, "TopicName", "name", "AWS/SNS", FALSE))
    @@ ("sqs:queue" :>
        RgtaProvider(arn_pattern_no_restype, "QueueName", "name", "AWS/SQS", FALSE))
    @@ ("events:rule" :>
        RgtaProvider(arn_pattern_name_by_slash, "RuleName", "name", "AWS/Events", FALSE))
    @@ ("apigateway:apis" :>
        RgtaProvider(arn_pattern_name_by_slash, "ApiId", "name", "AWS/ApiGateway", TRUE))
    @@ ("scheduler:schedule-group" :>
        RgtaProvider(arn_pattern_name_by_slash, "ScheduleGroup", "name", "AWS/Scheduler", FALSE))
    @@ ("apigateway:restapi" :>
        [base |-> "apigw", dimension_name |-> "ApiName", dimension_value |-> "name",
         default_namespace |-> <<"AWS/ApiGateway">>])

\* get_resource_name: the REST API provider's resource is the API's name
provider_get_resource_name(provider, arn) ==
    IF provider.base = "apigw" THEN arn ELSE re_sub(provider.arn_pattern, arn)

provider_dimensions(provider, metric_name, arn) ==
    <<[Name |-> provider.dimension_name,
       Value |-> IF provider.dimension_value = "arn" THEN arn
                 ELSE provider_get_resource_name(provider, arn)]>>

provider_namespace(provider, resource_config) ==
    LET ns == Get(resource_config.alarm, "namespace", << >>)
    IN IF Truthy(ns) THEN ns ELSE provider.default_namespace

provider_metric_names(resource_config, resource) == resource_config.alarm.metrics

\* None is << >>: the caller only tests the result for truthiness
provider_param_overrides(resource_config, metric_name, resource) ==
    LET overrides == Get(resource_config.alarm, "alarm_param_overrides", << >>)
    IN IF Truthy(overrides) THEN Get(overrides, metric_name, << >>) ELSE << >>

\* faulty variant: the overrides replace the properties
apply_overrides_replace(props, overrides) ==
    IF Truthy(overrides) THEN overrides ELSE props

\* if param_overrides: param["AlarmProps"].update(param_overrides)
apply_overrides(props, overrides) ==
    IF Truthy(overrides) THEN Merge(props, overrides) ELSE props

provider_metric_alarm(provider, resource_config, metric, resource) ==
    [TargetResource |-> [ResourceName |-> provider_get_resource_name(provider, resource)],
     AlarmProps |->
        apply_overrides([MetricName |-> metric,
                         Namespace |-> provider_namespace(provider, resource_config),
                         Dimensions |-> provider_dimensions(provider, metric, resource)],
                        provider_param_overrides(resource_config, metric, resource))]

\* faulty variant: the loops nested the other way round
provider_get_metric_alarms_metric_major(provider, resource_config, resources) ==
    LET metrics == resource_config.alarm.metrics
    IN Flatten([m \in 1..Len(metrics) |->
                   [r \in 1..Len(resources) |->
                       provider_metric_alarm(provider, resource_config, metrics[m],
                                             resources[r])]])

\* TargetMetricsProviderBase.get_metric_alarms over the resources yielded
provider_get_metric_alarms(provider, resource_config, resources) ==
    Flatten([r \in 1..Len(resources) |->
                [m \in 1..Len(provider_metric_names(resource_config, resources[r])) |->
                    provider_metric_alarm(provider, resource_config,
                        provider_metric_names(resource_config, resources[r])[m],
                        resources[r])]])

----------------------------------------------------------------------------
(* ResourceGroupsTaggingAPITargetMetricsProviderBase *)

\* target_resource_tags is an ordered dict: a sequence of <<key, value>> pairs
tag_filters(tags) ==
    [j \in 1..Len(tags) |-> [Key |-> tags[j][1], Values |-> <<tags[j][2]>>]]

request_param(resource_config, pagination_token) ==
    LET tags == Get(resource_config, "target_resource_tags", << >>)
        param == [ResourceTypeFilters |-> <<resource_config.target_resource_type>>,
                  PaginationToken |-> pagination_token]
    IN IF Truthy(tags) THEN Merge(param, [TagFilters |-> tag_filters(tags)]) ELSE param

nofilter(arn) == TRUE

\* faulty variant: the pattern is matched against the ARN
filter_by_resource_name_pattern_arn(provider, pattern, arn) ==
    re_match(re_compile(pattern), arn)

filter_by_resource_name_pattern(provider, pattern, arn) ==
    re_match(re_compile(pattern), provider_get_resource_name(provider, arn))

\* faulty variant: the filter of the base class, whatever the provider
create_resource_filter_base(provider, pattern, arn) ==
    IF Truthy(pattern) THEN filter_by_resource_name_pattern(provider, pattern, arn)
    ELSE nofilter(arn)

\* the predicate create_resource_filter returns, applied to an ARN
create_resource_filter(provider, pattern, arn) ==
    LET original == IF Truthy(pattern)
                    THEN filter_by_resource_name_pattern(provider, pattern, arn)
                    ELSE nofilter(arn)
    IN IF provider.no_stages
       THEN original /\ ~re_match(arn_api_stage, arn)
       ELSE original

\* faulty variant: the loop stops after the first page
rgta_more_results_never(next_token) == FALSE

\* if next_token and next_token != ""
rgta_more_results(next_token) == Truthy(next_token) /\ next_token /= << >>

\* The responses get_resources may give: the resources of the type and with
\* the tags the request names are served in the order of the inventory from
\* the offset the token names, at least one of them in a page; the last page
\* carries no token or an empty one.
get_resources(inv, request) ==
    LET wanted(r) ==
            /\ r.type = request.ResourceTypeFilters[1]
            /\ \A f \in Range(Get(request, "TagFilters", << >>)) :
                  \E t \in Range(r.Tags) : t[1] = f.Key /\ t[2] \in Range(f.Values)
        listed == SelectSeq(inv, wanted)
        off == IF request.PaginationToken = << >> THEN 0 ELSE request.PaginationToken[1]
        rem == Len(listed) - off
        page(k) == [j \in 1..k |-> [ResourceARN |-> listed[off + j].ResourceARN,
                                     Tags |-> listed[off + j].Tags]]
        last(p) == {[ResourceTagMappingList |-> p],
                    [ResourceTagMappingList |-> p, PaginationToken |-> << >>]}
    IN IF rem <= 0 THEN last(<< >>)
       ELSE UNION {IF off + k < Len(listed)
                   THEN {[ResourceTagMappingList |-> page(k), PaginationToken |-> <<off + k>>]}
                   ELSE last(page(k)) : k \in 1..rem}

----------------------------------------------------------------------------
(* SpecTargets: list(get_target_metrics(config)) of the monitoring_targets  *)
(* package.  config holds the resource groups, inventory is what the        *)
(* tagging API knows, idx is the number of the group whose provider is      *)
(* running, token is request_param["PaginationToken"], target_metrics is    *)
(* the list built so far and calls logs the get_resources calls and the     *)
(* ARNs the providers yield.                                                *)

MaxGroups == 2

\* _get_target_metrics_providers resumes: the next resource group, if any,
\* gets its provider, or the lookup of its resource type fails
NextProvider ==
    /\ pc = "providers"
    /\ IF idx = Len(config.resources)
       THEN pc' = "done" /\ UNCHANGED <<idx, token>>
       ELSE LET resource_config == config.resources[idx + 1][2]
                provider == Get(provider_dict, resource_config.target_resource_type, << >>)
            IN IF Truthy(provider)
               THEN /\ idx' = idx + 1
                    /\ token' = << >>
                    /\ pc' = IF provider.base = "rgta" THEN "get_resources"
                             ELSE "get_rest_apis"
               ELSE /\ pc' = "config_error"
                    /\ UNCHANGED <<idx, token>>
    /\ UNCHANGED <<config, opts, inventory, backend, backend0, run, target_metrics,
                   current_alarms, create, keep, delete, to_create, to_delete,
                   calls, out, prev>>

\* one iteration of the loop of get_monitoring_target_resources, with the
\* alarms get_metric_alarms makes of the resources it yields
GetResources ==
    /\ pc = "get_resources"
    /\ LET resource_config == config.resources[idx][2]
           provider == provider_dict[resource_config.target_resource_type]
           pattern == Get(resource_config, "target_resource_name_pattern", << >>)
           request == request_param(resource_config, token)
       IN \/ \E resp \in get_resources(inventory, request) :
                LET arns == [j \in 1..Len(resp.ResourceTagMappingList) |->
                                resp.ResourceTagMappingList[j].ResourceARN]
                    yielded == SelectSeq(arns,
                                   LAMBDA arn : create_resource_filter(provider, pattern, arn))
                    next_token == Get(resp, "PaginationToken", << >>)
                IN /\ calls' = Append(calls, Call("get_resources", TRUE,
                                          [group |-> idx, request |-> request, response |-> resp]))
                               \o [j \in 1..Len(yielded) |->
                                      Call("yield", TRUE, [group |-> idx, arn |-> yielded[j]])]
                   /\ target_metrics' = target_metrics
                          \o provider_get_metric_alarms(provider, resource_config, yielded)
                   /\ IF rgta_more_results(next_token)
                      THEN token' = next_token /\ pc' = "get_resources"
                      ELSE token' = token /\ pc' = "providers"
          \/ /\ calls' = Append(calls, Call("get_resources", FALSE,
                                    [group |-> idx, request |-> request]))
             /\ pc' = "error"
             /\ UNCHANGED <<token, target_metrics>>
    /\ UNCHANGED <<config, opts, inventory, backend, backend0, run, idx,
                   current_alarms, create, keep, delete, to_create, to_delete, out, prev>>

(* The universe of SpecTargets *)

Arn(service, resource_type, name) ==
    <<"a", "r", "n", ":", "a", "w", "s", ":">> \o service
    \o <<":", "r", "1", ":", "1", "2", ":">> \o resource_type \o name

\* what the tagging API knows of a resource; name is the name it was created
\* with, which no response carries
Tagged(type, arn, name, tags) ==
    [ResourceARN |-> arn, type |-> type, name |-> name, Tags |-> tags]

Team == << <<"team", "x">> >>

LambdaFunction(name, tags) ==
    Tagged("lambda:function",
           Arn(<<"l", "a", "m", "b", "d", "a">>,
               <<"f", "u", "n", "c", "t", "i", "o", "n", ":">>, name), name, tags)

SnsTopic(name) == Tagged("sns:topic", Arn(<<"s", "n", "s">>, << >>, name), name, << >>)

EventsRule(name) ==
    Tagged("events:rule",
           Arn(<<"e", "v", "e", "n", "t", "s">>,
               <<"r", "u", "l", "e", "/">>, name), name, << >>)

FullInventory ==
    << LambdaFunction(<<"a", "b">>, Team), SnsTopic(<<"a", "b">>),
       LambdaFunction(<<"b", "a">>, Team), EventsRule(<<"b", "c">>),
       LambdaFunction(<<"b", "c">>, << >>), SnsTopic(<<"b", "a">>),
       EventsRule(<<"a", "b">>) >>

Reverse(s) == [j \in 1..Len(s) |-> s[Len(s) + 1 - j]]

TaggedInventories == {<< >>, FullInventory, Reverse(FullInventory)}

AltPattern == <<"^", "(", "a", "|", "b", ")", "c">>

NamePatterns == {<<"b">>, AltPattern, <<"z">>}

Overrides ==
    (M1 :> [Threshold |-> 3600, Namespace |-> <<"Custom/NS">>])
    @@ (<<"x">> :> [Threshold |-> 500])

GroupConfig(type, pattern, tags, ns, metrics, overrides) ==
    [target_resource_type |-> type,
     target_resource_name_pattern |-> pattern,
     target_resource_tags |-> tags,
     alarm |-> [namespace |-> ns, metrics |-> metrics,
                alarm_param_overrides |-> overrides]]

GroupConfigs ==
    {GroupConfig("lambda:function", p, << >>, << >>, <<M1>>, << >>) : p \in NamePatterns}
    \cup {GroupConfig("lambda:function", << >>, << >>, << >>, ms, ov) :
            ms \in {<< >>, <<M1>>, <<M1, M2>>}, ov \in {<< >>, Overrides}}
    \cup {GroupConfig("lambda:function", << >>, Team, <<"My/NS">>, <<M2, M1>>, Overrides),
          GroupConfig("sns:topic", <<"a">>, << >>, << >>, <<M1, M2>>, Overrides),
          GroupConfig("events:rule", AltPattern, << >>, <<"My/NS">>, <<M2>>, << >>),
          GroupConfig("nosuch:type", << >>, << >>, << >>, <<M1>>, << >>)}

\* config["resources"] is an ordered dict: a sequence of <<key, group>> pairs;
\* each resource type is named by at most one group
TargetConfigs ==
    {[resources |-> [k \in 1..Len(gs) |-> <<<<"g">> \o Str(k), gs[k]>>]] :
        gs \in {hs \in SeqsUpTo(GroupConfigs, MaxGroups) :
                   \A a, b \in 1..Len(hs) :
                       a /= b => hs[a].target_resource_type /= hs[b].target_resource_type}}

InitTargets ==
    /\ config \in TargetConfigs
    /\ opts = [confirm_changeset |-> FALSE, update_existing_alarms |-> FALSE,
               notification_topic_arn |-> << >>, config_file |-> config]
    /\ inventory \in TaggedInventories
    /\ backend = << >>
    /\ backend0 = backend
    /\ pc = "providers"
    /\ to_create = << >>
    /\ to_delete = << >>
    /\ Idle

NextTargets ==
    \/ NextProvider
    \/ GetResources

SpecTargets == InitTargets /\ [][NextTargets]_vars

----------------------------------------------------------------------------
(* Properties of get_target_metrics *)

GroupConfigOf(g) == config.resources[g][2]

GetCalls(g) == SelectSeq(calls, LAMBDA c : c.op = "get_resources" /\ c.arg.group = g)

\* the ARNs the provider of group g has yielded, in the order of the yields
Yielded(g) ==
    LET ys == SelectSeq(calls, LAMBDA c : c.op = "yield" /\ c.arg.group = g)
    IN [j \in 1..Len(ys) |-> ys[j].arg.arn]

\* the ARNs of the pages group g has received, in the order received
Pages(g) ==
    LET oks == SelectSeq(GetCalls(g), LAMBDA c : c.ok)
    IN Flatten([j \in 1..Len(oks) |->
                   [i \in 1..Len(oks[j].arg.response.ResourceTagMappingList) |->
                       oks[j].arg.response.ResourceTagMappingList[i].ResourceARN]])

\* the provider of group g has returned
GroupDone(g) == g < idx \/ (g = idx /\ pc \in {"providers", "done", "config_error"})

\* the name the resource of this ARN was created with
NameOf(arn) == (CHOOSE e \in Range(inventory) : e.ResourceARN = arn).name

\* C13: when get_target_metrics fails because a group names a resource type
\* without a provider, no get_resources call has been made.
C13_FailFast ==
    pc = "config_error" =>
        \A j \in 1..Len(calls) : calls[j].op /= "get_resources"

\* the number of specifications of the groups before group g
RECURSIVE Offset(_)
Offset(g) ==
    IF g = 1 THEN 0
    ELSE Offset(g - 1) + Len(Yielded(g - 1)) * Len(GroupConfigOf(g - 1).alarm.metrics)

\* the specification of the r-th resource of group g and its m-th metric
SpecOf(g, r, m) ==
    target_metrics[Offset(g) + (r - 1) * Len(GroupConfigOf(g).alarm.metrics) + m]

\* C17: the list holds, group after group in the order of the configuration,
\* for each resource the group's provider yielded, in the order of the
\* yields, one specification for each configured metric, in the configured
\* order, and nothing else: r * m consecutive specifications for a group
\* with r resources and m metrics.
C17_BuilderOrder ==
    /\ Len(target_metrics) = Offset(idx + 1)
    /\ \A g \in 1..idx :
          LET metrics == GroupConfigOf(g).alarm.metrics
          IN \A r \in 1..Len(Yielded(g)) : \A m \in 1..Len(metrics) :
                /\ SpecOf(g, r, m).TargetResource.ResourceName = NameOf(Yielded(g)[r])
                /\ SpecOf(g, r, m).AlarmProps["MetricName"] = metrics[m]
                /\ SpecOf(g, r, m).AlarmProps["Dimensions"][1].Value = NameOf(Yielded(g)[r])
    /\ pc = "done" =>
          /\ idx = Len(config.resources)
          /\ \A g \in 1..idx : GroupDone(g)

\* two groups: three resources with two metrics, then one resource with two
C17_Witness ==
    /\ pc = "done"
    /\ idx = 2
    /\ Len(Yielded(1)) = 3
    /\ GroupConfigOf(1).alarm.metrics = <<M1, M2>>
    /\ Len(Yielded(2)) = 1
    /\ GroupConfigOf(2).alarm.metrics = <<M1, M2>>
    /\ Len(target_metrics) = 8
    /\ SpecOf(1, 2, 1) /= SpecOf(1, 1, 2)

\* C18: the AlarmProps of a specification are MetricName, Namespace and
\* Dimensions; when alarm_param_overrides has an entry for the metric, its
\* keys are added or written over them and every other key stays; without
\* an entry the AlarmProps are the three alone; the entries of metrics that
\* are not configured leave every specification as it would be without them.
C18_Overrides ==
    \A g \in 1..idx :
        LET resource_config == GroupConfigOf(g)
            provider == provider_dict[resource_config.target_resource_type]
            metrics == resource_config.alarm.metrics
            overrides == resource_config.alarm.alarm_param_overrides
            configured == [k \in (DOMAIN overrides) \cap Range(metrics) |-> overrides[k]]
            without == [resource_config EXCEPT !.alarm.alarm_param_overrides = configured]
        IN /\ \A r \in 1..Len(Yielded(g)) : \A m \in 1..Len(metrics) :
                 LET props == SpecOf(g, r, m).AlarmProps
                     base == [MetricName |-> metrics[m],
                              Namespace |-> provider_namespace(provider, resource_config),
                              Dimensions |-> provider_dimensions(provider, metrics[m],
                                                                 Yielded(g)[r])]
                 IN IF metrics[m] \in DOMAIN overrides
                    THEN LET entry == overrides[metrics[m]]
                         IN /\ DOMAIN props = (DOMAIN base) \cup (DOMAIN entry)
                            /\ \A k \in DOMAIN entry : props[k] = entry[k]
                            /\ \A k \in (DOMAIN base) \ (DOMAIN entry) : props[k] = base[k]
                    ELSE props = base
           /\ SubSeq(target_metrics, Offset(g) + 1, Offset(g + 1))
                 = provider_get_metric_alarms(provider, without, Yielded(g))

\* a metric with an entry that adds Threshold and overwrites Namespace, a
\* metric without an entry, and an entry for a metric that is not configured
C18_Witness ==
    /\ pc = "done"
    /\ idx >= 1
    /\ GroupConfigOf(1).alarm.metrics = <<M1, M2>>
    /\ GroupConfigOf(1).alarm.alarm_param_overrides = Overrides
    /\ Len(Yielded(1)) >= 1
    /\ DOMAIN SpecOf(1, 1, 1).AlarmProps = {"MetricName", "Namespace", "Dimensions", "Threshold"}
    /\ SpecOf(1, 1, 1).AlarmProps["Threshold"] = 3600
    /\ SpecOf(1, 1, 1).AlarmProps["Namespace"] = <<"Custom/NS">>
    /\ SpecOf(1, 1, 1).AlarmProps["MetricName"] = M1
    /\ DOMAIN SpecOf(1, 1, 2).AlarmProps = {"MetricName", "Namespace", "Dimensions"}
    /\ SpecOf(1, 1, 2).AlarmProps["Namespace"] = <<"AWS/Lambda">>

\* C19: the first get_resources request of a provider carries the empty
\* token; a further request is made only after a response with a non-empty
\* token and carries that token; the provider returns after the first
\* response with no token or an empty one; the ARNs it yields are those of
\* the pages received that pass the filter, in the order received.
C19_Pagination ==
    \A g \in 1..idx :
        LET gets == GetCalls(g)
            resource_config == GroupConfigOf(g)
            provider == provider_dict[resource_config.target_resource_type]
        IN /\ gets /= << >> => gets[1].arg.request.PaginationToken = << >>
           /\ \A j \in 2..Len(gets) :
                 /\ gets[j - 1].ok
                 /\ "PaginationToken" \in DOMAIN gets[j - 1].arg.response
                 /\ gets[j - 1].arg.response.PaginationToken /= << >>
                 /\ gets[j].arg.request.PaginationToken
                       = gets[j - 1].arg.response.PaginationToken
           /\ GroupDone(g) =>
                 /\ gets /= << >>
                 /\ gets[Len(gets)].ok
                 /\ Get(gets[Len(gets)].arg.response, "PaginationToken", << >>) = << >>
           /\ (g = idx /\ pc = "get_resources" /\ gets /= << >>) =>
                 /\ gets[Len(gets)].ok
                 /\ Get(gets[Len(gets)].arg.response, "PaginationToken", << >>) /= << >>
           /\ Yielded(g) =
                 SelectSeq(Pages(g),
                     LAMBDA arn : create_resource_filter(provider,
                                      resource_config.target_resource_name_pattern, arn))

\* three pages of one function each; the filter drops the first
C19_Witness ==
    /\ pc = "done"
    /\ idx >= 1
    /\ Len(GetCalls(1)) = 3
    /\ GetCalls(1)[2].arg.request.PaginationToken = <<1>>
    /\ GetCalls(1)[3].arg.request.PaginationToken = <<2>>
    /\ "PaginationToken" \notin DOMAIN GetCalls(1)[3].arg.response
    /\ Len(Pages(1)) = 3
    /\ Yielded(1) = <<Pages(1)[2], Pages(1)[3]>>

\* the beginnings of names each configured pattern stands for
Denotes ==
    (<<"a">> :> {<<"a">>}) @@ (<<"b">> :> {<<"b">>}) @@ (<<"z">> :> {<<"z">>})
    @@ (AltPattern :> {<<"a", "c">>, <<"b", "c">>})

C20_WitnessRule ==
    /\ pc = "done"
    /\ idx >= 1
    /\ GroupConfigOf(1).target_resource_type = "events:rule"
    /\ Len(Pages(1)) = 2
    /\ Len(Yielded(1)) = 1
    /\ NameOf(Yielded(1)[1]) = <<"b", "c">>

----------------------------------------------------------------------------
(* ApiGatewayMetricsProvider: the REST APIs come from get_rest_apis *)

\* faulty variant: a tag counts when its key is there, whatever its value
contains_tags_keys_only(actual_tags, expected_tags) ==
    IF Truthy(expected_tags)
    THEN \A j \in 1..Len(expected_tags) :
            \E i \in 1..Len(actual_tags) : actual_tags[i][1] = expected_tags[j][1]
    ELSE TRUE

\* _contains_tags: a dict is a sequence of <<key, value>> pairs, items() its range
contains_tags(actual_tags, expected_tags) ==
    IF Truthy(expected_tags)
    THEN LET tags == Range(actual_tags)
         IN \A j \in 1..Len(expected_tags) : expected_tags[j] \in tags
    ELSE TRUE

\* the response of get_rest_apis: the REST APIs in the order of the listing
get_rest_apis(inv) ==
    LET listed == SelectSeq(inv, LAMBDA r : r.type = "apigateway:restapi")
    IN [items |-> [j \in 1..Len(listed) |-> [name |-> listed[j].name,
                                              tags |-> listed[j].tags]]]

\* get_monitoring_target_resources of the REST API provider, with the alarms
\* get_metric_alarms makes of the names it returns
GetRestApis ==
    /\ pc = "get_rest_apis"
    /\ LET resource_config == config.resources[idx][2]
           provider == provider_dict[resource_config.target_resource_type]
           target_tags == Get(resource_config, "target_resource_tags", << >>)
       IN \/ LET resources == get_rest_apis(inventory).items
                 kept == SelectSeq(resources,
                             LAMBDA res : contains_tags(res.tags, target_tags))
                 names == [j \in 1..Len(kept) |-> kept[j].name]
             IN /\ calls' = Append(calls, Call("get_rest_apis", TRUE,
                                       [group |-> idx, response |-> resources]))
                            \o [j \in 1..Len(names) |->
                                   Call("yield", TRUE, [group |-> idx, arn |-> names[j]])]
                /\ target_metrics' = target_metrics
                       \o provider_get_metric_alarms(provider, resource_config, names)
                /\ pc' = "providers"
          \/ /\ calls' = Append(calls, Call("get_rest_apis", FALSE, [group |-> idx]))
             /\ pc' = "error"
             /\ UNCHANGED target_metrics
    /\ UNCHANGED <<config, opts, inventory, backend, backend0, run, idx, token,
                   current_alarms, create, keep, delete, to_create, to_delete, out, prev>>

----------------------------------------------------------------------------
(* SpecGateway: list(get_target_metrics(config)) for the two API Gateway   *)
(* resource types                                                          *)

ApiArn(id) ==
    <<"a", "r", "n", ":", "a", "w", "s", ":", "a", "p", "i", "g", "a", "t",
      "e", "w", "a", "y", ":", "r", "1", ":", ":", "/", "a", "p", "i", "s", "/">> \o id

\* an HTTP API, and a stage of one: the tagging API lists both for the
\* resource type apigateway:apis
HttpApi(id) == Tagged("apigateway:apis", ApiArn(id), id, << >>)

ApiStage(id, stage) ==
    Tagged("apigateway:apis",
           ApiArn(id) \o <<"/", "s", "t", "a", "g", "e", "s", "/">> \o stage,
           stage, << >>) @@ [stage_of |-> id]

\* an item of get_rest_apis
RestApi(name, tags) == [type |-> "apigateway:restapi", name |-> name, tags |-> tags]

Env == <<"env", "p">>

GatewayInventory ==
    << HttpApi(<<"a", "b">>), RestApi(<<"a", "b">>, Team),
       ApiStage(<<"a", "b">>, <<"b", "c">>), RestApi(<<"b", "a">>, << <<"team", "y">> >>),
       HttpApi(<<"b", "c">>), RestApi(<<"b", "c">>, <<Env, Team[1]>>),
       ApiStage(<<"b", "c">>, <<"a", "c">>), RestApi(<<"c", "d">>, << >>),
       HttpApi(<<"c", "a">>) >>

\* a group whose configuration has no target_resource_tags key
WithoutTags(group) == [k \in DOMAIN group \ {"target_resource_tags"} |-> group[k]]

GatewayGroupConfigs ==
    {GroupConfig("apigateway:apis", p, << >>, << >>, <<M1>>, << >>) :
        p \in {<< >>, <<"a">>, <<"z">>, AltPattern}}
    \cup {GroupConfig("apigateway:restapi", << >>, tags, << >>, <<M1, M2>>, << >>) :
            tags \in {<< >>, Team, <<Team[1], Env>>}}
    \cup {WithoutTags(GroupConfig("apigateway:restapi", << >>, << >>, << >>, <<M1>>, << >>))}

InitGateway ==
    /\ \E gs \in SeqsUpTo(GatewayGroupConfigs, MaxGroups) :
          /\ \A a, b \in 1..Len(gs) :
                a /= b => gs[a].target_resource_type /= gs[b].target_resource_type
          /\ config = [resources |-> [k \in 1..Len(gs) |-> <<<<"g">> \o Str(k), gs[k]>>]]
    /\ opts = [confirm_changeset |-> FALSE, update_existing_alarms |-> FALSE,
               notification_topic_arn |-> << >>, config_file |-> config]
    /\ inventory \in {<< >>, GatewayInventory, Reverse(GatewayInventory)}
    /\ backend = << >>
    /\ backend0 = backend
    /\ pc = "providers"
    /\ to_create = << >>
    /\ to_delete = << >>
    /\ Idle

NextGateway ==
    \/ NextProvider
    \/ GetResources
    \/ GetRestApis

SpecGateway == InitGateway /\ [][NextGateway]_vars

----------------------------------------------------------------------------
(* Properties of the API Gateway providers *)

TypeOf(g) == GroupConfigOf(g).target_resource_type

\* what the inventory holds under this ARN
Entry(arn) == CHOOSE e \in Range(inventory) : e.type = "apigateway:apis" /\ e.ResourceARN = arn

IsStage(arn) == "stage_of" \in DOMAIN Entry(arn)

\* the name of the API or of the stage begins with a string the pattern stands for
PassesPattern(pattern, arn) ==
    pattern = << >> \/ \E q \in Denotes[pattern] : StartsWith(Entry(arn).name, q)

\* C21: the provider of apigateway:apis yields, of the ARNs received and in
\* their order, those that pass the name pattern and are not the ARN of a
\* stage; filtering by the pattern first and by the stages second, or the
\* other way round, gives the same sequence, and no stage ARN is yielded
\* with any pattern or with none.
C21_StageExclusion ==
    \A g \in 1..idx :
        TypeOf(g) = "apigateway:apis" =>
            LET pattern == GroupConfigOf(g).target_resource_name_pattern
                byName(arns) == SelectSeq(arns, LAMBDA arn : PassesPattern(pattern, arn))
                noStage(arns) == SelectSeq(arns, LAMBDA arn : ~IsStage(arn))
            IN /\ Yielded(g) = SelectSeq(Pages(g),
                                  LAMBDA arn : PassesPattern(pattern, arn) /\ ~IsStage(arn))
               /\ Yielded(g) = noStage(byName(Pages(g)))
               /\ Yielded(g) = byName(noStage(Pages(g)))
               /\ \A j \in 1..Len(Yielded(g)) : ~IsStage(Yielded(g)[j])

\* pattern a: the API ab is yielded, the stage ac of the API bc is not
\* although its name passes the pattern, the APIs bc and ca do not pass
C21_Witness ==
    /\ pc = "done"
    /\ idx >= 1
    /\ TypeOf(1) = "apigateway:apis"
    /\ GroupConfigOf(1).target_resource_name_pattern = <<"a">>
    /\ Len(Pages(1)) = 5
    /\ \E j \in 1..5 : IsStage(Pages(1)[j]) /\ PassesPattern(<<"a">>, Pages(1)[j])
    /\ Yielded(1) = <<ApiArn(<<"a", "b">>)>>

\* no pattern: the three APIs are yielded, the two stages are not
C21_WitnessNoPattern ==
    /\ pc = "done"
    /\ idx >= 1
    /\ TypeOf(1) = "apigateway:apis"
    /\ GroupConfigOf(1).target_resource_name_pattern = << >>
    /\ Len(Pages(1)) = 5
    /\ Len(Yielded(1)) = 3

\* the items of the response group g got from get_rest_apis
Listed(g) ==
    LET cs == SelectSeq(calls, LAMBDA c : c.op = "get_rest_apis" /\ c.ok /\ c.arg.group = g)
    IN IF cs = << >> THEN << >> ELSE cs[1].arg.response

\* C22: the provider of apigateway:restapi yields the names of the listed
\* REST APIs, in the order of the listing, whose tags hold every configured
\* key with the configured value; all of them when no tags are configured or
\* the configured map is empty.
C22_TagContainment ==
    \A g \in 1..idx :
        (TypeOf(g) = "apigateway:restapi" /\ GroupDone(g)) =>
            LET cfg == GroupConfigOf(g)
                expected == IF "target_resource_tags" \in DOMAIN cfg
                            THEN cfg.target_resource_tags ELSE << >>
                has(res, k, v) == \E i \in 1..Len(res.tags) : res.tags[i] = <<k, v>>
                kept == SelectSeq(Listed(g),
                            LAMBDA res : \A j \in 1..Len(expected) :
                                            has(res, expected[j][1], expected[j][2]))
            IN /\ Yielded(g) = [j \in 1..Len(kept) |-> kept[j].name]
               /\ expected = << >> => Len(Yielded(g)) = Len(Listed(g))

\* team=x configured: ab and bc are yielded in the order listed, ba with
\* team=y and cd without tags are not
C22_Witness ==
    /\ pc = "done"
    /\ idx >= 1
    /\ TypeOf(1) = "apigateway:restapi"
    /\ "target_resource_tags" \in DOMAIN GroupConfigOf(1)
    /\ GroupConfigOf(1).target_resource_tags = Team
    /\ Len(Listed(1)) = 4
    /\ Listed(1)[2].tags = << <<"team", "y">> >>
    /\ Yielded(1) = << <<"a", "b">>, <<"b", "c">> >>

\* no target_resource_tags key: every listed REST API is yielded
C22_WitnessNoTags ==
    /\ pc = "done"
    /\ idx >= 1
    /\ TypeOf(1) = "apigateway:restapi"
    /\ "target_resource_tags" \notin DOMAIN GroupConfigOf(1)
    /\ Len(Yielded(1)) = 4

----------------------------------------------------------------------------
(* Properties of update_alarms and of the arguments main gives it *)

\* C23: update_alarms leaves default_alarm_params of the configuration as it
\* was loaded: no key is added to it and no value of it changes.
C23_DefaultsUntouched ==
    config.default_alarm_params = opts.config_file.default_alarm_params

\* the calls made before the j-th call
Before(j) == SubSeq(calls, 1, j - 1)

\* C27: when update_alarms issues a delete call, a create call has been made
\* for every alarm of the to-create list, in the order of the list, and each
\* of them has succeeded; no create call follows a delete call.
C27_CreatesBeforeDeletes ==
    \A j \in 1..Len(calls) :
        calls[j].op = "delete_alarms" =>
            LET puts == SelectSeq(Before(j), LAMBDA c : c.op = "put_metric_alarm")
            IN /\ Len(puts) = Len(to_create)
               /\ \A k \in 1..Len(puts) :
                     /\ puts[k].ok
                     /\ puts[k].arg["AlarmName"] = to_create[k]["AlarmName"]
               /\ \A i \in (j + 1)..Len(calls) : calls[i].op /= "put_metric_alarm"

\* two alarms created, then the delete call
C27_Witness ==
    /\ pc = "done"
    /\ Len(to_create) = 2
    /\ Len(OkPuts) = 2
    /\ Len(OkDeletes) = 1
    /\ calls[Len(calls)].op \in {"delete_alarms", "sleep"}

\* C28: a run without update_existing_alarms makes no create call for a name
\* of toKeep, and when it has ended without an error every alarm of toKeep
\* is in the backend with the parameters it had when the run began.
C28_KeptUntouched ==
    (~opts.update_existing_alarms /\ Computed) =>
        /\ PutNames \cap Range(keep) = {}
        /\ pc = "done" =>
              \A j \in 1..Len(keep) :
                 /\ keep[j] \in DOMAIN backend0
                 /\ keep[j] \in DOMAIN backend
                 /\ backend[keep[j]] = backend0[keep[j]]

\* a run that created and deleted alarms and kept one
C28_Witness ==
    /\ pc = "done"
    /\ ~opts.update_existing_alarms
    /\ Applied
    /\ OkPuts /= << >>
    /\ OkDeletes /= << >>
    /\ keep /= << >>
    /\ backend[keep[1]] = ExistingAlarm(keep[1])

----------------------------------------------------------------------------
(* SpecRun: a run of main over several services.  config holds the global  *)
(* settings and service_config, an ordered dict of services; inventory is  *)
(* what get_rest_apis lists; idx is the number of the service whose        *)
(* provider is running.                                                    *)

\* TargetMetricsProviderBase.__init__: the provider reads the global settings
\* and the settings of its service
provider_view(cfg, k) == Merge(cfg, cfg.service_config[k][2])

\* get_target_metrics resumes _get_target_metrics_providers: the next service
\* gets its provider, or eval finds no class of the configured name; after
\* the last service list(...) returns and main builds the AlarmHandler
NextService ==
    /\ pc = "services"
    /\ IF idx = Len(config.service_config)
       THEN /\ pc' = "describe"
            /\ token' = << >>
            /\ current_alarms' = << >>
            /\ idx' = 0
       ELSE /\ IF config.service_config[idx + 1][2].provider_class_name
                     = "ApiGatewayMetricsProvider"
               THEN idx' = idx + 1 /\ pc' = "rest_apis"
               ELSE idx' = idx /\ pc' = "config_error"
            /\ UNCHANGED <<token, current_alarms>>
    /\ UNCHANGED <<config, opts, inventory, backend, backend0, run, target_metrics,
                   create, keep, delete, to_create, to_delete, calls, out, prev>>

\* ApiGatewayMetricsProvider.get_monitoring_target_resources and the alarms
\* get_metric_alarms makes of the names it returns
ListRestApis ==
    /\ pc = "rest_apis"
    /\ LET cfg == provider_view(config, idx)
           target_tags == Get(cfg, "target_resource_tags", << >>)
       IN \/ LET resources == get_rest_apis(inventory).items
                 kept == SelectSeq(resources,
                             LAMBDA res : contains_tags(res.tags, target_tags))
                 names == [j \in 1..Len(kept) |-> kept[j].name]
             IN /\ calls' = Append(calls, Call("get_rest_apis", TRUE, idx))
                /\ target_metrics' = target_metrics \o get_metric_alarms(cfg, names)
                /\ pc' = "services"
          \/ /\ calls' = Append(calls, Call("get_rest_apis", FALSE, idx))
             /\ pc' = on_error("services")
             /\ UNCHANGED target_metrics
    /\ UNCHANGED <<config, opts, inventory, backend, backend0, run, idx, token,
                   current_alarms, create, keep, delete, to_create, to_delete, out, prev>>

MN == <<"m", "-", "n">>

\* a service listing every REST API, one listing the tagged ones, and one
\* whose provider_class_name names no class
ServiceConfigs ==
    { [provider_class_name |-> "ApiGatewayMetricsProvider",
       namespace |-> "AWS/ApiGateway", metrics |-> <<M2, MN>>,
       alarm_param_overrides |-> << >>],
      [provider_class_name |-> "ApiGatewayMetricsProvider",
       target_resource_tags |-> Team,
       namespace |-> "My/NS", metrics |-> <<M2>>,
       alarm_param_overrides |-> M2 :> [Threshold |-> 3600]],
      [provider_class_name |-> "NoSuchProvider",
       namespace |-> "AWS/ApiGateway", metrics |-> <<M1>>,
       alarm_param_overrides |-> << >>] }

RunConfigs ==
    {[alarm_name_prefix |-> Prefix,
      alarm_actions |-> <<"t1">>,
      default_alarm_params |-> DefaultAlarmParams,
      alarm_tagging |-> << >>,
      api_call_intervals_in_millis |-> 0,
      service_config |-> [k \in 1..Len(ss) |-> <<<<"s">> \o Str(k), ss[k]>>]] :
        ss \in SeqsUpTo(ServiceConfigs, MaxGroups)}

\* the REST APIs a and a-m, each listed at most once
RunInventories ==
    {inv \in SeqsUpTo({RestApi(<<"a">>, Team), RestApi(<<"a", "-", "m">>, << >>)},
                      MaxResources) :
        \A a, b \in 1..Len(inv) : a /= b => inv[a] /= inv[b]}

RunBackends ==
    {[n \in S \cup {OtherOwner} |-> ExistingAlarm(n)] :
        S \in SUBSET {Prefix \o <<"a", "-", "n">>, Prefix \o <<"c", "-", "m">>}}

InitRun ==
    /\ \E cfg \in RunConfigs, confirm, force \in BOOLEAN :
          /\ config = cfg
          /\ opts = [confirm_changeset |-> confirm, update_existing_alarms |-> force,
                     notification_topic_arn |-> <<"t2">>, config_file |-> cfg]
    /\ inventory \in RunInventories
    /\ backend \in RunBackends
    /\ backend0 = backend
    /\ pc = "services"
    /\ to_create = << >>
    /\ to_delete = << >>
    /\ Idle

NextRun ==
    \/ NextService
    \/ ListRestApis
    \/ DescribeAlarms
    \/ ComputeChangeSet
    \/ PrintChangeSet
    \/ Prompt
    \/ Apply
    \/ BeginUpdate
    \/ CreateAlarm
    \/ DeleteAlarms

SpecRun == InitRun /\ [][NextRun]_vars

----------------------------------------------------------------------------
(* Properties of a run over several services *)

EnumCalls == SelectSeq(calls, LAMBDA c : c.op = "get_rest_apis")

\* one get_rest_apis call for every service, in the order of the services,
\* and each has returned
Enumerated ==
    /\ Len(EnumCalls) = Len(config.service_config)
    /\ \A k \in 1..Len(EnumCalls) : EnumCalls[k].ok /\ EnumCalls[k].arg = k

\* every alarm with the prefix has been read from the backend
Fetched ==
    /\ alarm_names(current_alarms) = PrefixNames(backend0, config.alarm_name_prefix)
    /\ Len(current_alarms) = Cardinality(PrefixNames(backend0, config.alarm_name_prefix))

\* the lines of the changeset are the first lines printed
Printed ==
    LET n == Len(create) + Len(keep) + Len(delete)
    IN /\ Len(out) >= n
       /\ \A j \in 1..Len(create) : out[j] = <<"+", " ">> \o create[j]["AlarmName"]
       /\ \A j \in 1..Len(delete) :
             out[Len(create) + Len(keep) + j] = <<"-", " ">> \o delete[j]

\* C24: when a run makes its first create or delete call, get_rest_apis has
\* returned for every service, every page of describe_alarms has been read
\* and the changeset has been printed, and no enumeration call follows; a run
\* that is still enumerating, fetching or printing, or that has ended with a
\* configuration error or with an error of an enumeration or describe call,
\* has made no create and no delete call and has left the backend as it was.
C24_PhaseOrder ==
    /\ Mutations /= << >> =>
          /\ Enumerated
          /\ Fetched
          /\ Printed
          /\ \A i, j \in 1..Len(calls) :
                (i < j /\ IsMutation(calls[i])) => calls[j].op /= "get_rest_apis"
    /\ pc \in {"services", "rest_apis", "describe", "changeset", "print", "config_error"} =>
          /\ Mutations = << >>
          /\ backend = backend0
    /\ (pc = "error" /\ (calls = << >> \/ ~IsMutation(calls[Len(calls)]))) =>
          /\ Mutations = << >>
          /\ backend = backend0

\* two services enumerated, then alarms created and deleted
C24_Witness ==
    /\ pc = "done"
    /\ Len(EnumCalls) = 2
    /\ OkPuts /= << >>
    /\ OkDeletes /= << >>

\* the call of the second service failed with an obsolete alarm in the backend
C24_WitnessError ==
    /\ pc = "error"
    /\ Len(EnumCalls) = 2
    /\ ~EnumCalls[2].ok
    /\ target_metrics /= << >>
    /\ Prefix \o <<"c", "-", "m">> \in DOMAIN backend

\* the second service names no provider class, the first has been enumerated
C24_WitnessConfig ==
    /\ pc = "config_error"
    /\ Len(EnumCalls) = 1
    /\ Prefix \o <<"c", "-", "m">> \in DOMAIN backend

\* the last position of to_create with the alarm name n
LastOf(n) ==
    CHOOSE k \in 1..Len(to_create) :
        /\ to_create[k]["AlarmName"] = n
        /\ \A l \in (k + 1)..Len(to_create) : to_create[l]["AlarmName"] /= n

\* C25: desired specifications with one alarm name that is no current alarm
\* are all in toCreate, in the builder's order; an apply makes one create
\* call for each entry of its list in that order, and when it has ended the
\* backend holds under each name the parameters of the last entry with it.
C25_LastOneWins ==
    /\ Computed =>
          \A i, j \in 1..Len(target_metrics) :
              (/\ i < j
               /\ target_metrics[i]["AlarmName"] = target_metrics[j]["AlarmName"]
               /\ target_metrics[i]["AlarmName"] \notin alarm_names(current_alarms)) =>
                  \E a, b \in 1..Len(create) :
                      /\ a < b
                      /\ create[a] = target_metrics[i]
                      /\ create[b] = target_metrics[j]
    /\ (pc = "done" /\ Applied) =>
          /\ Len(Puts) = Len(to_create)
          /\ \A k \in 1..Len(Puts) :
                /\ Puts[k].ok
                /\ \A key \in DOMAIN to_create[k] : Puts[k].arg[key] = to_create[k][key]
          /\ \A k \in 1..Len(to_create) :
                LET n == to_create[k]["AlarmName"]
                IN /\ n \in DOMAIN backend
                   /\ backend[n] = Puts[LastOf(n)].arg

\* a-m-n is desired twice, for the API a with the metric m-n and for the API
\* a-m with the metric n; both are created and the second is in the backend
C25_Witness ==
    /\ pc = "done"
    /\ Applied
    /\ \E a, b \in 1..Len(create) :
          /\ a < b
          /\ create[a]["AlarmName"] = Prefix \o <<"a", "-", "m", "-", "n">>
          /\ create[b]["AlarmName"] = create[a]["AlarmName"]
          /\ create[a]["MetricName"] = MN
          /\ create[b]["MetricName"] = M2
          /\ backend[create[a]["AlarmName"]]["MetricName"] = M2
          /\ backend[create[a]["AlarmName"]]["Dimensions"] = create[b]["Dimensions"]

\* C29 as claimed: no two desired specifications have one alarm name, and an
\* apply adds as many alarms to the backend as toCreate has entries.
C29_DistinctNames ==
    /\ \A i, j \in 1..Len(target_metrics) :
          i /= j => target_metrics[i]["AlarmName"] /= target_metrics[j]["AlarmName"]
    /\ (pc = "done" /\ Applied /\ ~opts.update_existing_alarms) =>
          Cardinality(DOMAIN backend \ DOMAIN backend0) = Len(create)

\* resource name, "-" and metric name of a desired specification
NameKey(alm) == alm["Dimensions"][1].Value \o <<"-">> \o alm["MetricName"]

\* C29: two desired specifications have one alarm name exactly when resource
\* name, "-" and metric name give one string for both, whatever their
\* services are; an apply adds as many alarms to the backend as toCreate has
\* different names, never more than it has entries.
C29_NameCollisions ==
    /\ \A i, j \in 1..Len(target_metrics) :
          (target_metrics[i]["AlarmName"] = target_metrics[j]["AlarmName"])
              <=> (NameKey(target_metrics[i]) = NameKey(target_metrics[j]))
    /\ (pc = "done" /\ Applied /\ ~opts.update_existing_alarms) =>
          /\ Cardinality(DOMAIN backend \ DOMAIN backend0) = Cardinality(alarm_names(create))
          /\ Cardinality(alarm_names(create)) <= Len(create)

\* the API a gives a-n for the first service and for the second: two of the
\* three entries of toCreate, with different namespaces, and two alarms more
\* in the backend
C29_Witness ==
    /\ pc = "done"
    /\ Applied
    /\ ~opts.update_existing_alarms
    /\ Len(create) = 3
    /\ create[1]["AlarmName"] = create[3]["AlarmName"]
    /\ create[1]["Namespace"] /= create[3]["Namespace"]
    /\ NameKey(create[1]) = <<"a", "-", "n">>
    /\ Cardinality(DOMAIN backend \ DOMAIN backend0) = 2

----------------------------------------------------------------------------
(* SpecExternal: a run of main while another client of the backend creates  *)
(* or deletes alarms with the prefix, after get_alarms_change_set has       *)
(* returned and before update_alarms is called                              *)

MaxExternal == 1

\* another client puts or deletes one alarm
External ==
    /\ pc \in {"print", "prompt", "apply"}
    /\ Len(SelectSeq(calls, LAMBDA c : c.op = "external")) < MaxExternal
    /\ \E n \in {Prefix \o <<"a", "-", "n">>, Prefix \o <<"c", "-", "m">>,
                 Prefix \o <<"a", "-", "m", "-", "n">>} :
          /\ backend' = IF n \in DOMAIN backend
                        THEN delete_alarms(backend, <<n>>)
                        ELSE put_metric_alarm(backend, ExistingAlarm(n))
          /\ calls' = Append(calls, Call("external", TRUE, n))
    /\ UNCHANGED <<config, opts, inventory, backend0, pc, run, target_metrics, token,
                   current_alarms, create, keep, delete, to_create, to_delete,
                   idx, out, prev>>

NextExternal ==
    \/ NextRun
    \/ External

SpecExternal == InitRun /\ [][NextExternal]_vars

\* what the other client did
Externals == SelectSeq(calls, LAMBDA c : c.op = "external")

\* C26: the changeset is the one of the alarms read before the other client
\* acted, and update_alarms makes the create calls of its to-create list and
\* the delete call of toDelete whatever the backend holds by then.
C26_StaleSnapshot ==
    LET snapshot == PrefixNames(backend0, config.alarm_name_prefix)
    IN /\ Computed =>
             /\ alarm_names(current_alarms) = snapshot
             /\ create = SelectSeq(target_metrics,
                                   LAMBDA alm : alm["AlarmName"] \notin snapshot)
             /\ Range(delete) = snapshot \ alarm_names(target_metrics)
             /\ Range(keep) = snapshot \cap alarm_names(target_metrics)
       /\ \A k \in 1..Len(Puts) :
             /\ k <= Len(to_create)
             /\ Puts[k].arg["AlarmName"] = to_create[k]["AlarmName"]
       /\ \A k \in 1..Len(Deletes) : Deletes[k].arg = delete
       /\ (pc = "done" /\ Applied) =>
             /\ to_create = (IF opts.update_existing_alarms THEN target_metrics ELSE create)
             /\ Len(OkPuts) = Len(to_create)
             /\ Len(OkDeletes) = (IF delete = << >> THEN 0 ELSE 1)

\* the other client deleted an alarm of toKeep: the run without
\* update_existing_alarms has ended and the alarm, still desired, is missing
C26_Witness ==
    /\ pc = "done"
    /\ Applied
    /\ ~opts.update_existing_alarms
    /\ Len(Externals) = 1
    /\ Externals[1].arg \in Range(keep)
    /\ Externals[1].arg \in alarm_names(target_metrics)
    /\ Externals[1].arg \notin DOMAIN backend
    /\ PrefixNames(backend, config.alarm_name_prefix) /= alarm_names(target_metrics)

\* the other client created an obsolete alarm after the fetch: it is not in
\* toDelete and is still there at the end
C26_WitnessCreated ==
    /\ pc = "done"
    /\ Applied
    /\ Len(Externals) = 1
    /\ Externals[1].arg = Prefix \o <<"c", "-", "m">>
    /\ Externals[1].arg \notin DOMAIN backend0
    /\ Externals[1].arg \in DOMAIN backend
    /\ Externals[1].arg \notin alarm_names(target_metrics)

----------------------------------------------------------------------------
(* SpecPages: one run of a pagination loop, of _get_current_alarms or of    *)
(* get_monitoring_target_resources, against a backend that answers each     *)
(* continuation token with a page of its own choosing.  backend (for        *)
(* describe_alarms) or inventory (for get_resources) holds the pages; the   *)
(* request with the empty token gets page 1 and the token of length j gets  *)
(* page j + 1.  A page may name any page but the first as the next one, so  *)
(* the pages may form a cycle.  The loops run whenever the backend answers: *)
(* the specification is weakly fair.                                        *)

MaxPages == 3

\* requests the model follows on a backend whose tokens never end
MaxRequests == MaxPages + 2

PageToken(j) == [k \in 1..j |-> "t"]

\* the pages a backend may hold: page j with item j or with nothing, and with
\* no token (next = -1), the empty token (0) or the token of a later or an
\* earlier page
PageScripts ==
    UNION {[1..n -> [has_item : BOOLEAN, next : -1..(n - 1)]] : n \in 1..MaxPages}

page_of(script, tok) ==
    LET j == Len(tok) + 1
    IN [number |-> j,
        has_item |-> script[j].has_item,
        has_token |-> script[j].next >= 0,
        next |-> PageToken(script[j].next)]

PagedAlarm(j) == ExistingAlarm(Prefix \o <<Digit[j + 1]>>)

PagedFunction(j) ==
    [ResourceARN |-> Arn(<<"l", "a", "m", "b", "d", "a">>,
                         <<"f", "u", "n", "c", "t", "i", "o", "n", ":">>, <<Digit[j + 1]>>),
     Tags |-> << >>]

\* describe_alarms of the scripted backend
describe_alarms_page(script, request) ==
    LET page == page_of(script, request.NextToken)
        items == IF page.has_item THEN <<PagedAlarm(page.number)>> ELSE << >>
    IN IF page.has_token
       THEN [MetricAlarms |-> items, NextToken |-> page.next]
       ELSE [MetricAlarms |-> items]

\* get_resources of the scripted tagging API
get_resources_page(script, request) ==
    LET page == page_of(script, request.PaginationToken)
        items == IF page.has_item THEN <<PagedFunction(page.number)>> ELSE << >>
    IN IF page.has_token
       THEN [ResourceTagMappingList |-> items, PaginationToken |-> page.next]
       ELSE [ResourceTagMappingList |-> items]

\* one pass of the loop of _get_current_alarms
DescribeAlarmsPage ==
    /\ pc = "describe"
    /\ Len(calls) < MaxRequests
    /\ LET request == [NextToken |-> token, AlarmNamePrefix |-> config.alarm_name_prefix,
                       AlarmTypes |-> <<"MetricAlarm">>, MaxRecords |-> MaxRecords]
           current_alarms_resp == describe_alarms_page(backend, request)
           next_token == Get(current_alarms_resp, "NextToken", << >>)
       IN /\ calls' = Append(calls, Call("describe_alarms", TRUE,
                                 [request |-> request, response |-> current_alarms_resp]))
          /\ current_alarms' = current_alarms \o current_alarms_resp.MetricAlarms
          /\ IF more_results(next_token)
             THEN token' = next_token /\ pc' = "describe"
             ELSE token' = token /\ pc' = "done"
    /\ UNCHANGED <<config, opts, inventory, backend, backend0, run, target_metrics,
                   create, keep, delete, to_create, to_delete, idx, out, prev>>

\* one pass of the loop of get_monitoring_target_resources; target_metrics
\* collects the ARNs it yields
GetResourcesPage ==
    /\ pc = "get_resources"
    /\ Len(calls) < MaxRequests
    /\ LET resource_config == [target_resource_type |-> "lambda:function"]
           provider == provider_dict[resource_config.target_resource_type]
           pattern == Get(resource_config, "target_resource_name_pattern", << >>)
           request == request_param(resource_config, token)
           resp == get_resources_page(inventory, request)
           arns == [j \in 1..Len(resp.ResourceTagMappingList) |->
                       resp.ResourceTagMappingList[j].ResourceARN]
           next_token == Get(resp, "PaginationToken", << >>)
       IN /\ calls' = Append(calls, Call("get_resources", TRUE,
                                 [request |-> request, response |-> resp]))
          /\ target_metrics' = target_metrics
                 \o SelectSeq(arns, LAMBDA arn : create_resource_filter(provider, pattern, arn))
          /\ IF rgta_more_results(next_token)
             THEN token' = next_token /\ pc' = "get_resources"
             ELSE token' = token /\ pc' = "done"
    /\ UNCHANGED <<config, opts, inventory, backend, backend0, run, idx,
                   current_alarms, create, keep, delete, to_create, to_delete, out, prev>>

InitPages ==
    /\ config = [alarm_name_prefix |-> Prefix]
    /\ opts = [confirm_changeset |-> FALSE, update_existing_alarms |-> FALSE,
               notification_topic_arn |-> << >>, config_file |-> config]
    /\ \/ pc = "describe" /\ backend \in PageScripts /\ inventory = << >>
       \/ pc = "get_resources" /\ inventory \in PageScripts /\ backend = << >>
    /\ backend0 = backend
    /\ to_create = << >>
    /\ to_delete = << >>
    /\ Idle

NextPages ==
    \/ DescribeAlarmsPage
    \/ GetResourcesPage

SpecPages == InitPages /\ [][NextPages]_vars /\ WF_vars(NextPages)

----------------------------------------------------------------------------
(* Properties of the pagination loops *)

\* the pages the loop is run against
Script == IF inventory = << >> THEN backend ELSE inventory

Ends(page) == page.next <= 0

\* the number of pages from page p to the first one that ends the chain, 0
\* if there is none within fuel pages
RECURSIVE ChainLength(_, _, _)
ChainLength(script, p, fuel) ==
    IF fuel = 0 THEN 0
    ELSE IF Ends(script[p]) THEN 1
    ELSE LET rest == ChainLength(script, script[p].next + 1, fuel - 1)
         IN IF rest = 0 THEN 0 ELSE rest + 1

\* P, or 0 for a backend whose tokens never end
P == ChainLength(Script, 1, Len(Script))

\* the numbers of the pages of the first n pages of the chain that hold an item
RECURSIVE ChainItems(_, _, _)
ChainItems(script, p, n) ==
    IF n = 0 THEN << >>
    ELSE (IF script[p].has_item THEN <<p>> ELSE << >>)
         \o ChainItems(script, script[p].next + 1, n - 1)

TokenKey(c) == IF c.op = "describe_alarms" THEN "NextToken" ELSE "PaginationToken"

TokenAbsent(c) == TokenKey(c) \notin DOMAIN c.arg.response

ResponseToken(c) == Get(c.arg.response, TokenKey(c), << >>)

LastToken(c) == TokenAbsent(c) \/ ResponseToken(c) = << >>

InLoop == pc \in {"describe", "get_resources"}

C30_LoopInvariant ==
    \* no response before the last one ended the chain, and each request
    \* carries the token of the response before
    /\ \A k \in 1..Len(calls) :
          /\ k < Len(calls) => ~LastToken(calls[k])
          /\ calls[k].ok
          /\ calls[k].arg.request[TokenKey(calls[k])]
                = (IF k = 1 THEN << >> ELSE ResponseToken(calls[k - 1]))
    \* the loop has ended exactly when the last response carried no token or
    \* the empty one
    /\ (pc = "done") <=> (calls /= << >> /\ LastToken(calls[Len(calls)]))
    /\ InLoop \/ pc = "done"
    \* P requests on a chain of P pages, everything on them yielded once
    /\ P > 0 =>
          /\ Len(calls) <= P
          /\ pc = "done" =>
                /\ Len(calls) = P
                /\ Len(calls) >= 1
                /\ LET items == ChainItems(Script, 1, P)
                   IN /\ current_alarms
                            = (IF inventory = << >>
                               THEN [j \in 1..Len(items) |-> PagedAlarm(items[j])]
                               ELSE << >>)
                      /\ target_metrics
                            = (IF inventory = << >>
                               THEN << >>
                               ELSE [j \in 1..Len(items) |->
                                        PagedFunction(items[j]).ResourceARN])
    \* tokens that never end: the loop is still running
    /\ P = 0 => InLoop

\* C30: each pagination loop ends exactly at the first response whose token is
\* absent or empty; on a chain of P pages it ends after exactly P requests, at
\* least one; on a backend whose tokens never end it does not end.
C30_Termination ==
    /\ []C30_LoopInvariant
    /\ (P > 0) ~> (pc = "done")

\* a chain of three pages has been read by the describe loop, ended by a
\* response without a token
C30_Witness ==
    /\ pc = "done"
    /\ P = 3
    /\ Len(calls) = 3
    /\ calls[1].op = "describe_alarms"
    /\ TokenAbsent(calls[3])

\* the same for get_resources, ended by an empty token
C30_WitnessResources ==
    /\ pc = "done"
    /\ P = 3
    /\ Len(calls) = 3
    /\ calls[1].op = "get_resources"
    /\ ~TokenAbsent(calls[3])

\* nothing to list: one request all the same
C30_WitnessEmpty ==
    /\ pc = "done"
    /\ Len(calls) = 1
    /\ current_alarms \o target_metrics = << >>

\* tokens that never end: more requests than the backend has pages
C30_WitnessEndless ==
    /\ P = 0
    /\ Len(calls) > Len(Script)
    /\ InLoop

====
